---- MODULE Spec2Model ----
(***************************************************************************)
(* Session lifecycle and page batching of the flashcard generator.         *)
(*                                                                         *)
(* The model follows backend/api/v1/sessions.py (request handlers),        *)
(* backend/services/session_service.py (background generation tasks and    *)
(* create_page_batches) and backend/main.py (startup crash recovery).      *)
(*                                                                         *)
(* Request handlers are `async def` bodies without an await between their  *)
(* reads and their commit, so each handler is one atomic action.  The      *)
(* background tasks run detached from the request; a task is split at its  *)
(* commits: one step for the set-up, one step per batch, one for the final *)
(* status decision.  Other requests and a process restart may interleave   *)
(* between those steps.                                                    *)
(*                                                                         *)
(* The deck tag sanitize_filename(session.display_name or session.filename)*)
(* is not part of the state: the attribute read is taken to succeed and    *)
(* its value does not influence any status, counter or chunk index.        *)
(***************************************************************************)
EXTENDS Integers, Sequences, FiniteSets, TLC

\* ---------------------------------------------------------------- bounds
MaxRuns == 2
MaxRestarts == 1
MaxPages == 11
MaxChunks == 2
MaxBatchCards == 1
MaxCards == 2
MaxLen == 6
MaxBatchSize == 3
MaxRows == 3
MaxStarts == 2
MaxCardRows == 2
MaxOps == 3
MaxClock == 2
MaxIds == 2
MaxSuggestions == 2
MaxPromptRows == 5
MaxAnalyses == 2
MaxTokens == 3
MaxText == 4
MaxChunkSize == 12
MaxTags == 2
MaxRefs == 2
MaxExtra == 2
MaxUnitBatches == 2
MaxUnitCards == 2

\* ----------------------------------------------------- program constants
BATCH_SIZE == 10
BATCH_OVERLAP == 1

\* No operation modelled here reads or writes the row of another session, so
\* the lifecycle is followed on one session row; recover_stuck_sessions, which
\* sweeps the whole table, is also run on tables of several rows (SpecRecover).
Sessions == {1}

VARIABLES
    status,            \* Session.status, "none" before the row exists
    source_type,       \* Session.source_type
    llm_provider,      \* Session.llm_provider
    doc_pages,         \* page_count of the uploaded document
    doc_chunks,        \* number of text chunks the document segments into
    use_native_pdf,    \* pdf_metadata["use_native_pdf"] (absent reads TRUE)
    selected_pages,    \* pdf_metadata["selected_pages"], NoSelection if absent
    total_chunks,      \* Session.total_chunks
    processed_chunks,  \* Session.processed_chunks
    error,             \* pdf_metadata["error"], NoError if absent
    cards,             \* committed Card rows of the session, creation order
    runs,              \* number of background tasks accepted for the session
    task,              \* the session's background task
    boots,             \* number of process restarts so far
    total_cards_generated,  \* PromptVersion.total_cards_generated of the
                       \* version the sessions are linked to
    b_pages, b_size, b_overlap, b_result, b_pc,  \* create_page_batches call
    r_status, r_runs,                            \* sessions table at a restart
    c_cards,           \* cards table under review: id -> Card row
    c_rejections,      \* card_rejections table, insertion order
    c_clock,           \* last value datetime.utcnow() returned
    c_calls,           \* model calls made by auto_correct_card so far
    c_result,          \* the last card request and what it returned
    p_versions,        \* prompt_versions table, insertion order (id = position)
    p_suggestions,     \* prompt_suggestions table, insertion order
    p_boots,           \* process starts of the prompt tables' application
    p_calls,           \* model calls made by the session analysis so far
    p_last,            \* the last session analysis and what it returned
    l_fn,              \* the structured-output function being called
    l_provider,        \* LLMInterface.provider of the call
    l_pc,              \* where the call is: idle, calling, parsing, returned, raised
    l_attempt,         \* "attempt" of the JSON retry loop
    l_system,          \* enhanced_system_prompt, as the list of its parts
    l_sent,            \* the system prompts of the round trips made so far
    l_calls,           \* provider calls made by _retry_on_rate_limit in this
                       \* round trip, which is its "attempt" before the next call
    l_waits,           \* the time.sleep delays of this round trip
    l_total,           \* provider calls made since the structured call began
    l_response,        \* what the provider did last: a text or an exception
    l_result,          \* what the call returned or raised
    l_batch,           \* what the caller's card loop made of the return value
    g_text,            \* the text given to PDFProcessor, a list of tokens
    g_chunk_size,      \* PDFProcessor.chunk_size
    g_chunks,          \* the chunks returned
    g_pc,              \* the PDFProcessor method that ran, "call" before
    f_card,            \* a FlashCard
    f_dict,            \* a dict describing a card
    f_out,             \* what the round trip made of f_card or of f_dict
    f_pc,              \* the round trip that ran, "call" before
    i_doc,             \* per session: kind and name of its document, its images
    i_pc,              \* per session: "uploaded", then "stored"
    i_mapping,         \* per session: image_mapping, original -> stored name
    i_dir,             \* CARD_IMAGES_DIR: stored name -> the image written last
    i_card,            \* the card_data handled last, its session and batch
    i_rows,            \* the CardImage rows added for that card
    x_cards,           \* Card rows of the session continue_generation reads
    x_list,            \* ids of the cards serialized as existing_cards_context
    x_pc,              \* "call" before continue_generation built the list
    u_db,              \* committed Card and CardImage rows, insertion order
    u_uow,             \* rows added to the database session and not committed
    u_idx,             \* batch_idx of the next batch
    u_errors,          \* number of entries of the run's errors list
    u_pc               \* "loop" in the batch loop, "done" after the last commit

sessVars == <<status, source_type, llm_provider, doc_pages, doc_chunks, use_native_pdf,
              selected_pages, total_chunks, processed_chunks, error, cards,
              runs, task, boots>>
batchVars == <<b_pages, b_size, b_overlap, b_result, b_pc>>
recoverVars == <<r_status, r_runs>>
reviewVars == <<c_cards, c_rejections, c_clock, c_calls, c_result>>
promptVars == <<p_versions, p_suggestions, p_boots, p_calls, p_last>>
llmVars == <<l_fn, l_provider, l_pc, l_attempt, l_system, l_sent, l_calls,
             l_waits, l_total, l_response, l_result, l_batch>>
segmentVars == <<g_text, g_chunk_size, g_chunks, g_pc>>
flashVars == <<f_card, f_dict, f_out, f_pc>>
imageVars == <<i_doc, i_pc, i_mapping, i_dir, i_card, i_rows>>
exclusionVars == <<x_cards, x_list, x_pc>>
unitVars == <<u_db, u_uow, u_idx, u_errors, u_pc>>
serviceVars == <<exclusionVars, unitVars>>
moduleVars == <<llmVars, segmentVars, flashVars, imageVars, serviceVars>>
metricVars == <<total_cards_generated>>
vars == <<sessVars, batchVars, recoverVars, reviewVars, promptVars, moduleVars, metricVars>>

\* ---------------------------------------------------------------- helpers
Min(a, b) == IF a < b THEN a ELSE b

Range(s) == {s[k] : k \in DOMAIN s}

\* Python slice seq[i:j] with 0 <= i <= j (0-based, half open)
Slice(seq, i, j) == SubSeq(seq, i + 1, Min(j, Len(seq)))

\* list(dict.fromkeys(seq)): first occurrences, order kept
RECURSIVE Dedupe(_)
Dedupe(seq) ==
    IF seq = <<>> THEN <<>>
    ELSE LET front == Dedupe(SubSeq(seq, 1, Len(seq) - 1))
             last == seq[Len(seq)]
         IN IF last \in Range(front) THEN front ELSE Append(front, last)

\* list(range(n))
PageRange(n) == [k \in 1..n |-> k - 1]

\* ------------------------------------------------------ create_page_batches
Stride_SignSlip(batch_size, overlap) == batch_size + overlap

Stride(batch_size, overlap) == batch_size - overlap

BatchAt_OneShort(pages, i, batch_size) == Slice(pages, i, i + batch_size - 1)

\* batch = pages[i:i + batch_size]
BatchAt(pages, i, batch_size) == Slice(pages, i, i + batch_size)

\* one pass of "for i in range(0, len(pages), stride)" from index i on
RECURSIVE BatchLoop(_, _, _, _, _)
BatchLoop(pages, batch_size, overlap, i, batches) ==
    IF i >= Len(pages) THEN batches
    ELSE LET batch == BatchAt(pages, i, batch_size)
             next == IF batch = <<>> THEN batches
                     ELSE IF Len(batch) <= overlap /\ batches # <<>>
                          THEN [batches EXCEPT ![Len(batches)] = Dedupe(@ \o batch)]
                          ELSE Append(batches, batch)
         IN IF i + batch_size >= Len(pages) THEN next
            ELSE BatchLoop(pages, batch_size, overlap,
                           i + Stride(batch_size, overlap), next)

create_page_batches(pages, batch_size, overlap) ==
    IF Len(pages) <= batch_size THEN <<pages>>
    ELSE BatchLoop(pages, batch_size, overlap, 0, <<>>)

\* ------------------------------------------------------------ session data
Providers == {"openai", "anthropic"}

NoError == ""
NoSelection == <<-1>>

\* page counts a document may have, and page lists a request may carry (a
\* request with page_indices = [] is accepted and stored as it is)
PageChoices == {1, MaxPages}
Selections == {NoSelection} \cup {PageRange(n) : n \in {0} \cup PageChoices}

\* str(e) of the exceptions the steps of a task raise
ModelErrors == {"rate limit exceeded"}
CardDataError == "bad card data"
SetupError == "file not found"
BaseDirError == "Markdown base directory not found"

\* LLMInterface.supports_native_pdf
SupportsNativePdf(provider) == provider = "anthropic"

\* BATCH_CONTEXT_TEMPLATE.format(batch_num=, total_batches=, context_count=):
\* str.format raises KeyError(field) for a field that has no argument
TemplateFields == <<"batch_num", "total_batches", "context_pages", "new_pages">>
FormatArgs == {"batch_num", "total_batches", "context_count"}
MissingFields(fields, args) == SelectSeq(fields, LAMBDA f : f \notin args)
KeyErrorText(field) == "'" \o field \o "'"

\* a Card row: chunk_index as stored, run = ordinal of the task that added it
NewCards(n, chunk_index, run) ==
    [k \in 1..n |-> [chunk_index |-> chunk_index, run |-> run]]

\* chunks of the text and Markdown paths, identified by their position
Chunks(n) == [k \in 1..n |-> <<k - 1>>]

FinalStatus_AnyErrorFails(card_count, errors) ==
    IF errors # <<>> THEN "failed" ELSE "ready"

\* status decision after the batch loop
FinalStatus(card_count, errors) ==
    IF card_count = 0 /\ errors # <<>> THEN "failed" ELSE "ready"

ErrorSummary_FirstOnly(errors) == errors[1]

\* errors[0] if len(errors) == 1 else f"{len(errors)} errors occurred"
ErrorSummary(errors) ==
    IF Len(errors) = 1 THEN errors[1]
    ELSE ToString(Len(errors)) \o " errors occurred"

RecoverStuck_AllUnfinished(st) ==
    IF st \in {"processing", "pending"} THEN "failed" ELSE st

\* recover_stuck_sessions: the status it leaves in a row whose status is st
RecoverStuck(st) == IF st = "processing" THEN "failed" ELSE st

\* recover_stuck_sessions over the sessions table
recover_stuck_sessions(table) == [s \in DOMAIN table |-> RecoverStuck(table[s])]

\* ------------------------------------------------------------------- tasks
IdleTask ==
    [kind |-> "none", pc |-> "idle", req_pages |-> NoSelection,
     batches |-> <<>>, idx |-> 0, errors |-> <<>>, processed_pages |-> {},
     has_images |-> FALSE, uow |-> <<>>, card_count |-> 0, max_chunk |-> 0,
     ok_cards |-> 0]

\* background_tasks.add_task(...)
Queued(kind, req) == [IdleTask EXCEPT !.kind = kind, !.pc = "queued", !.req_pages = req]

\* the task function has returned; errors and ok_cards stay as the record of
\* what its batches did
Done(t) == [IdleTask EXCEPT !.kind = t.kind, !.pc = "done", !.errors = t.errors,
                            !.ok_cards = t.ok_cards]

CommitCards_Rollback(committed, uow, added) == added

\* db.commit() of a batch: the rows of the unit of work (those an earlier,
\* failed batch added and nothing rolled back, then this batch's) are appended
\* to the committed rows
CommitCards(committed, uow, added) == committed \o uow \o added

\* what one batch's model call and card loop can do
Outcomes(s) ==
    LET room == MaxCards - Len(cards[s]) - Len(task[s].uow)
    IN  [type : {"raise"}, msg : ModelErrors, n : {0}]
        \cup [type : {"ok"}, msg : {NoError}, n : 0..Min(MaxBatchCards, room)]
        \cup [type : {"partial"}, msg : {CardDataError}, n : 1..Min(MaxBatchCards, room)]

InitSessions ==
    /\ status = [s \in Sessions |-> "none"]
    /\ source_type = [s \in Sessions |-> "pdf"]
    /\ llm_provider = [s \in Sessions |-> "openai"]
    /\ doc_pages = [s \in Sessions |-> 1]
    /\ doc_chunks = [s \in Sessions |-> 0]
    /\ use_native_pdf = [s \in Sessions |-> TRUE]
    /\ selected_pages = [s \in Sessions |-> NoSelection]
    /\ total_chunks = [s \in Sessions |-> 0]
    /\ processed_chunks = [s \in Sessions |-> 0]
    /\ error = [s \in Sessions |-> NoError]
    /\ cards = [s \in Sessions |-> <<>>]
    /\ runs = [s \in Sessions |-> 0]
    /\ task = [s \in Sessions |-> IdleTask]
    /\ boots = 0
    /\ total_cards_generated = 0

NoBatchCall ==
    /\ b_pages = <<>>
    /\ b_size = 1
    /\ b_overlap = 0
    /\ b_result = <<>>
    /\ b_pc = "unused"

NoRecoverRun ==
    /\ r_status = <<>>
    /\ r_runs = 0

\* a key the model's JSON answer does not have; an argument a request lacks
Missing == "<missing>"
NoArg == [front |-> Missing, back |-> Missing]

\* the n-th card request and what it returned: ids it was given, the body it
\* carried (edit) or the model's answer (auto-correct), the error detail of
\* the HTTP error, the counts of a batch request
NoResult ==
    [n |-> 0, op |-> "none", ids |-> <<>>, arg |-> NoArg, error |-> NoError,
     processed |-> 0, failed |-> 0]

NoReview ==
    /\ c_cards = <<>>
    /\ c_rejections = <<>>
    /\ c_clock = 0
    /\ c_calls = 0
    /\ c_result = NoResult

\* the n-th analysis: whether the session row exists, the statuses its cards
\* have, what the model call did, the id of the suggestion returned (0: None)
NoAnalysis ==
    [n |-> 0, found |-> FALSE, statuses |-> {}, outcome |-> "none", returned |-> 0]

NoPrompts ==
    /\ p_versions = <<>>
    /\ p_suggestions = <<>>
    /\ p_boots = 0
    /\ p_calls = 0
    /\ p_last = NoAnalysis

\* no structured-output call has been made
NoJson == [type |-> "none", keys |-> {}, cards |-> 0]
NoLlmValue == [kind |-> "none", value |-> NoJson, error |-> <<>>]
NoLlmCall ==
    /\ l_fn = "none"
    /\ l_provider = "none"
    /\ l_pc = "idle"
    /\ l_attempt = 0
    /\ l_system = <<>>
    /\ l_sent = <<>>
    /\ l_calls = 0
    /\ l_waits = <<>>
    /\ l_total = 0
    /\ l_response = [kind |-> "none", body |-> <<>>]
    /\ l_result = NoLlmValue
    /\ l_batch = [kind |-> "none", cards |-> 0]

NoSegmentCall ==
    /\ g_text = <<>>
    /\ g_chunk_size = 1
    /\ g_chunks = <<>>
    /\ g_pc = "unused"

\* Python values of a card's fields: a str, a list of str, None, or the mark
\* of a key the dict does not have
Str(s) == [type |-> "str", val |-> s]
List(l) == [type |-> "list", val |-> l]
NoneStr == [type |-> "NoneType", val |-> ""]
NoneList == [type |-> "NoneType", val |-> <<>>]
NoKeyStr == [type |-> Missing, val |-> ""]
NoKeyList == [type |-> Missing, val |-> <<>>]
NoCard == [front |-> NoKeyStr, back |-> NoKeyStr, tags |-> NoKeyList]

NoFlashCard ==
    /\ f_card = NoCard
    /\ f_dict = NoCard
    /\ f_out = NoCard
    /\ f_pc = "unused"

NoCardData == [session |-> 0, page_batch |-> <<>>, images |-> <<>>]
NoImages ==
    /\ i_doc = <<>>
    /\ i_pc = <<>>
    /\ i_mapping = <<>>
    /\ i_dir = {}
    /\ i_card = NoCardData
    /\ i_rows = <<>>

\* no step of a service function is followed on its own
NoExclusionList ==
    /\ x_cards = <<>>
    /\ x_list = <<>>
    /\ x_pc = "unused"

NoUnitOfWork ==
    /\ u_db = <<>>
    /\ u_uow = <<>>
    /\ u_idx = 0
    /\ u_errors = 0
    /\ u_pc = "unused"

NoServiceCall == NoExclusionList /\ NoUnitOfWork

\* nothing of src/modules is running on its own
NoModuleCall == NoLlmCall /\ NoSegmentCall /\ NoFlashCard /\ NoImages /\ NoServiceCall

Init == InitSessions /\ NoBatchCall /\ NoRecoverRun /\ NoReview /\ NoPrompts /\ NoModuleCall

\* the primary key create_session gets: the next unused id
NextId(s) == status[s] = "none" /\ \A t \in Sessions : t < s => status[t] # "none"

\* create_session: the new row, status PROCESSING until the caller changes it
create_session(s, provider, source, pages, chunks) ==
    /\ source_type' = [source_type EXCEPT ![s] = source]
    /\ llm_provider' = [llm_provider EXCEPT ![s] = provider]
    /\ doc_pages' = [doc_pages EXCEPT ![s] = pages]
    /\ doc_chunks' = [doc_chunks EXCEPT ![s] = chunks]
    /\ UNCHANGED <<use_native_pdf, selected_pages, total_chunks, processed_chunks,
                   error, cards, boots>>

\* POST / (legacy): create the session and start processing at once
upload_pdf(s) ==
    /\ NextId(s)
    /\ \E provider \in Providers, n \in PageChoices, c \in 0..MaxChunks :
           create_session(s, provider, "pdf", n, c)
    /\ status' = [status EXCEPT ![s] = "processing"]
    /\ runs' = [runs EXCEPT ![s] = 1]
    /\ task' = [task EXCEPT ![s] = Queued("pdf", NoSelection)]
    /\ UNCHANGED <<batchVars, recoverVars, reviewVars, promptVars, moduleVars, metricVars>>

\* POST /upload-preview: create the session, then set it to pending
upload_pdf_preview(s) ==
    /\ NextId(s)
    /\ \E provider \in Providers, n \in PageChoices, c \in 0..MaxChunks :
           create_session(s, provider, "pdf", n, c)
    /\ status' = [status EXCEPT ![s] = "pending"]
    /\ UNCHANGED <<runs, task, batchVars, recoverVars, reviewVars, promptVars, moduleVars, metricVars>>

\* POST /upload-markdown: only the anthropic provider is accepted
upload_markdown_preview(s) ==
    /\ NextId(s)
    /\ \E c \in 0..MaxChunks : create_session(s, "anthropic", "markdown", 1, c)
    /\ status' = [status EXCEPT ![s] = "pending"]
    /\ UNCHANGED <<runs, task, batchVars, recoverVars, reviewVars, promptVars, moduleVars, metricVars>>

\* "if session.status not in ["pending", "failed"]: raise HTTPException(400)"
CanStart(st) == st \in {"pending", "failed"}

CanContinue_WhileProcessing(st) == st \in {"ready", "pending", "processing"}

\* "if session.status not in ["ready", "pending"]: raise HTTPException(400)"
CanContinue(st) == st \in {"ready", "pending"}

\* POST /{id}/start-generation
start_generation(s) ==
    /\ CanStart(status[s])
    /\ runs[s] < MaxRuns
    /\ status' = [status EXCEPT ![s] = "processing"]
    /\ runs' = [runs EXCEPT ![s] = @ + 1]
    /\ IF source_type[s] = "markdown"
       THEN /\ task' = [task EXCEPT ![s] = Queued("markdown", NoSelection)]
            /\ UNCHANGED <<selected_pages, use_native_pdf>>
       ELSE \E sel \in Selections, native \in BOOLEAN :
            /\ selected_pages' = [selected_pages EXCEPT
                                     ![s] = IF sel # NoSelection THEN sel ELSE @]
            /\ use_native_pdf' = [use_native_pdf EXCEPT ![s] = native]
            /\ task' = [task EXCEPT ![s] = Queued("pdf", NoSelection)]
    /\ UNCHANGED <<source_type, llm_provider, doc_pages, doc_chunks, total_chunks,
                   processed_chunks, error, cards, boots, batchVars, recoverVars, reviewVars, promptVars, moduleVars, metricVars>>

\* POST /{id}/continue-generation
continue_generation_endpoint(s) ==
    /\ CanContinue(status[s])
    /\ runs[s] < MaxRuns
    /\ status' = [status EXCEPT ![s] = "processing"]
    /\ runs' = [runs EXCEPT ![s] = @ + 1]
    /\ \E req \in Selections : task' = [task EXCEPT ![s] = Queued("continue", req)]
    /\ UNCHANGED <<source_type, llm_provider, doc_pages, doc_chunks, use_native_pdf,
                   selected_pages, total_chunks, processed_chunks, error, cards,
                   boots, batchVars, recoverVars, reviewVars, promptVars, moduleVars, metricVars>>

\* finalize_session: no check of the current status beyond "not finalized"
finalize_session(s) ==
    status' = [status EXCEPT ![s] = "finalized"]

\* POST /{id}/finalize
finalize_session_endpoint(s) ==
    /\ status[s] # "none"
    /\ status[s] # "finalized"
    /\ finalize_session(s)
    /\ UNCHANGED <<source_type, llm_provider, doc_pages, doc_chunks, use_native_pdf,
                   selected_pages, total_chunks, processed_chunks, error, cards,
                   runs, task, boots, batchVars, recoverVars, reviewVars, promptVars, moduleVars, metricVars>>

\* --------------------------------------------------------- background tasks
\* what no step of a background task writes
taskFrame == <<source_type, llm_provider, doc_pages, doc_chunks, use_native_pdf, runs, boots,
               batchVars, recoverVars, reviewVars, promptVars, moduleVars>>

\* except-branch of process_pdf_and_generate_cards: FAILED, metadata untouched
pdf_task_failed(s) ==
    /\ status' = [status EXCEPT ![s] = "failed"]
    /\ task' = [task EXCEPT ![s] = Done(task[s])]

\* process_pdf_and_generate_cards up to the batch loop of the path it chooses.
\* fail = "early": LLMInterface(), get_pdf_info or process_pdf raises;
\* fail = "late": extract_images_from_pdf / save_pdf_images raises, after the
\* commit of total_chunks (native path only)
pdf_task_start(s) ==
    /\ task[s].kind = "pdf"
    /\ task[s].pc = "queued"
    /\ \E fail \in {"none", "early", "late"}, imgs \in BOOLEAN :
       LET native == use_native_pdf[s] /\ SupportsNativePdf(llm_provider[s])
           pages == IF selected_pages[s] = NoSelection
                    THEN PageRange(doc_pages[s]) ELSE selected_pages[s]
           batches == create_page_batches(pages, BATCH_SIZE, BATCH_OVERLAP)
       IN  /\ fail = "late" => native
           /\ ~native => ~imgs
           /\ IF fail = "early"
              THEN /\ pdf_task_failed(s)
                   /\ UNCHANGED <<selected_pages, total_chunks>>
              ELSE IF native
              THEN /\ selected_pages' = [selected_pages EXCEPT ![s] = pages]
                   /\ total_chunks' = [total_chunks EXCEPT ![s] = Len(batches)]
                   /\ IF fail = "late"
                      THEN pdf_task_failed(s)
                      ELSE /\ task' = [task EXCEPT ![s].pc = "native",
                                                   ![s].batches = batches,
                                                   ![s].has_images = imgs]
                           /\ UNCHANGED status
              ELSE /\ total_chunks' = [total_chunks EXCEPT ![s] = doc_chunks[s]]
                   /\ task' = [task EXCEPT ![s].pc = "text",
                                           ![s].batches = Chunks(doc_chunks[s])]
                   /\ UNCHANGED <<status, selected_pages>>
    /\ UNCHANGED <<processed_chunks, error, cards, taskFrame, metricVars>>

\* "[p for p in page_batch if p not in processed_pages]" and its complement
NewPages(page_batch, processed_pages) ==
    SelectSeq(page_batch, LAMBDA p : p \notin processed_pages)

ContextPages(page_batch, processed_pages) ==
    SelectSeq(page_batch, LAMBDA p : p \in processed_pages)

\* one iteration of "for batch_idx, page_batch in enumerate(batches)" of
\* _process_with_native_pdf
native_batch(s) ==
    /\ task[s].pc = "native"
    /\ task[s].idx < Len(task[s].batches)
    /\ LET t == task[s]
           page_batch == t.batches[t.idx + 1]
           new_pages == NewPages(page_batch, t.processed_pages)
           context_pages == ContextPages(page_batch, t.processed_pages)
           missing == MissingFields(TemplateFields, FormatArgs)
       IN  IF context_pages # <<>> /\ new_pages # <<>> /\ missing # <<>>
           THEN /\ task' = [task EXCEPT ![s].errors = Append(@, KeyErrorText(missing[1])),
                                        ![s].idx = @ + 1]
                /\ UNCHANGED <<cards, processed_chunks>>
           ELSE \E out \in Outcomes(s) :
                LET added == NewCards(out.n, t.idx, runs[s])
                    seen == t.processed_pages \cup Range(page_batch)
                IN  CASE out.type = "raise" ->
                           /\ task' = [task EXCEPT ![s].errors = Append(@, out.msg),
                                                   ![s].idx = @ + 1]
                           /\ UNCHANGED <<cards, processed_chunks>>
                      [] out.type = "ok" ->
                           /\ cards' = [cards EXCEPT ![s] = CommitCards(@, t.uow, added)]
                           /\ processed_chunks' = [processed_chunks EXCEPT ![s] = t.idx + 1]
                           /\ task' = [task EXCEPT ![s].uow = <<>>,
                                                   ![s].processed_pages = seen,
                                                   ![s].ok_cards = @ + out.n,
                                                   ![s].idx = @ + 1]
                      [] out.type = "partial" ->
                           /\ task' = [task EXCEPT ![s].uow = @ \o added,
                                                   ![s].processed_pages = seen,
                                                   ![s].errors = Append(@, out.msg),
                                                   ![s].idx = @ + 1]
                           /\ UNCHANGED <<cards, processed_chunks>>
    /\ UNCHANGED <<status, selected_pages, total_chunks, error, taskFrame, metricVars>>

\* one iteration of "for i, chunk in enumerate(chunks)" of
\* _process_with_text_extraction
text_batch(s) ==
    /\ task[s].pc = "text"
    /\ task[s].idx < Len(task[s].batches)
    /\ \E out \in Outcomes(s) :
       LET t == task[s]
           added == NewCards(out.n, t.idx, runs[s])
       IN  CASE out.type = "raise" ->
                  /\ task' = [task EXCEPT ![s].errors = Append(@, out.msg),
                                          ![s].idx = @ + 1]
                  /\ UNCHANGED <<cards, processed_chunks>>
             [] out.type = "ok" ->
                  /\ cards' = [cards EXCEPT ![s] = CommitCards(@, t.uow, added)]
                  /\ processed_chunks' = [processed_chunks EXCEPT ![s] = t.idx + 1]
                  /\ task' = [task EXCEPT ![s].uow = <<>>,
                                          ![s].ok_cards = @ + out.n,
                                          ![s].idx = @ + 1]
             [] out.type = "partial" ->
                  /\ task' = [task EXCEPT ![s].uow = @ \o added,
                                          ![s].errors = Append(@, out.msg),
                                          ![s].idx = @ + 1]
                  /\ UNCHANGED <<cards, processed_chunks>>
    /\ UNCHANGED <<status, selected_pages, total_chunks, error, taskFrame, metricVars>>

\* update_prompt_metrics(db, session.prompt_version_id, cards_generated=...):
\* "prompt.total_cards_generated += cards_generated" (every session is linked
\* to the generation prompt that startup seeds)
update_prompt_metrics(total, cards_generated) == total + cards_generated

\* db.query(Card).filter(Card.session_id == session.id).count() of the task's
\* database session (autoflush off): committed rows, and the rows of the unit
\* of work only if db.flush() has sent them
CardCount(s) ==
    Len(cards[s]) + (IF task[s].has_images THEN Len(task[s].uow) ELSE 0)

\* after the loop of _process_with_native_pdf / _process_with_text_extraction:
\* status from the card count and the errors, then the final commit
pdf_task_finish(s) ==
    /\ task[s].pc \in {"native", "text"}
    /\ task[s].idx = Len(task[s].batches)
    /\ LET final == FinalStatus(CardCount(s), task[s].errors)
       IN  /\ status' = [status EXCEPT ![s] = final]
           /\ error' = [error EXCEPT
                           ![s] = IF final = "failed" THEN ErrorSummary(task[s].errors) ELSE @]
    /\ total_cards_generated' = update_prompt_metrics(total_cards_generated, CardCount(s))
    /\ cards' = [cards EXCEPT ![s] = CommitCards(@, task[s].uow, <<>>)]
    /\ task' = [task EXCEPT ![s] = Done(task[s])]
    /\ UNCHANGED <<selected_pages, total_chunks, processed_chunks, taskFrame>>

\* continue_generation up to its batch loop.  fail: LLMInterface() or
\* get_pdf_info raises, handled by the outer except (back to READY)
continue_task_start(s) ==
    /\ task[s].kind = "continue"
    /\ task[s].pc = "queued"
    /\ \E fail \in BOOLEAN :
       LET has_pages == task[s].req_pages # NoSelection \/ selected_pages[s] # NoSelection
           page_indices == IF task[s].req_pages # NoSelection THEN task[s].req_pages
                           ELSE IF selected_pages[s] # NoSelection THEN selected_pages[s]
                           ELSE PageRange(doc_pages[s])
       IN  \* get_pdf_info cannot read a Markdown file
           /\ (source_type[s] = "markdown" /\ ~has_pages) => fail
           /\ IF fail
              THEN /\ status' = [status EXCEPT ![s] = "ready"]
                   /\ task' = [task EXCEPT ![s] = Done(task[s])]
              ELSE IF ~SupportsNativePdf(llm_provider[s])
              THEN \* "Continue generation requires native PDF support": return
                   /\ task' = [task EXCEPT ![s] = Done(task[s])]
                   /\ UNCHANGED status
              ELSE /\ status' = [status EXCEPT ![s] = "processing"]
                   /\ task' = [task EXCEPT
                                  ![s].pc = "cont",
                                  ![s].batches = create_page_batches(page_indices,
                                                     BATCH_SIZE, BATCH_OVERLAP),
                                  ![s].max_chunk = Len(cards[s])]
    /\ UNCHANGED <<selected_pages, total_chunks, processed_chunks, error, cards,
                   taskFrame, metricVars>>

\* one iteration of the batch loop of continue_generation
continue_batch(s) ==
    /\ task[s].pc = "cont"
    /\ task[s].idx < Len(task[s].batches)
    /\ \E out \in Outcomes(s) :
       LET t == task[s]
           added == NewCards(out.n, t.max_chunk + t.idx, runs[s])
       IN  CASE out.type = "raise" ->
                  /\ task' = [task EXCEPT ![s].errors = Append(@, out.msg),
                                          ![s].idx = @ + 1]
                  /\ UNCHANGED cards
             [] out.type = "ok" ->
                  /\ cards' = [cards EXCEPT ![s] = CommitCards(@, t.uow, added)]
                  /\ task' = [task EXCEPT ![s].uow = <<>>,
                                          ![s].card_count = @ + out.n,
                                          ![s].ok_cards = @ + out.n,
                                          ![s].idx = @ + 1]
             [] out.type = "partial" ->
                  /\ task' = [task EXCEPT ![s].uow = @ \o added,
                                          ![s].card_count = @ + out.n,
                                          ![s].errors = Append(@, out.msg),
                                          ![s].idx = @ + 1]
                  /\ UNCHANGED cards
    /\ UNCHANGED <<status, selected_pages, total_chunks, processed_chunks, error,
                   taskFrame, metricVars>>

ContinueStatus_AsInitialRun(new_card_count, errors) ==
    IF new_card_count = 0 /\ errors # <<>> THEN "failed" ELSE "ready"

\* the status continue_generation sets after its loop: READY, whatever
\* new_card_count and errors are
ContinueStatus(new_card_count, errors) == "ready"

\* after the loop of continue_generation: READY whatever happened
continue_task_finish(s) ==
    /\ task[s].pc = "cont"
    /\ task[s].idx = Len(task[s].batches)
    /\ status' = [status EXCEPT ![s] = ContinueStatus(task[s].card_count, task[s].errors)]
    /\ cards' = [cards EXCEPT ![s] = CommitCards(@, task[s].uow, <<>>)]
    /\ task' = [task EXCEPT ![s] = Done(task[s])]
    /\ UNCHANGED <<selected_pages, total_chunks, processed_chunks, error, taskFrame, metricVars>>

\* process_markdown_and_generate_cards up to its chunk loop.
\* fail = "base_dir": the base directory is gone (FAILED, return);
\* fail = "early": parse_markdown or LLMInterface() raises;
\* fail = "late": copy_images_to_storage raises, after the commit of total_chunks
markdown_task_start(s) ==
    /\ task[s].kind = "markdown"
    /\ task[s].pc = "queued"
    /\ \E fail \in {"none", "base_dir", "early", "late"} :
       /\ IF fail \in {"base_dir", "early"}
          THEN /\ status' = [status EXCEPT ![s] = "failed"]
               /\ error' = [error EXCEPT
                               ![s] = IF fail = "base_dir" THEN BaseDirError ELSE SetupError]
               /\ task' = [task EXCEPT ![s] = Done(task[s])]
               /\ UNCHANGED total_chunks
          ELSE /\ total_chunks' = [total_chunks EXCEPT ![s] = doc_chunks[s]]
               /\ IF fail = "late"
                  THEN /\ status' = [status EXCEPT ![s] = "failed"]
                       /\ error' = [error EXCEPT ![s] = SetupError]
                       /\ task' = [task EXCEPT ![s] = Done(task[s])]
                  ELSE /\ task' = [task EXCEPT ![s].pc = "md",
                                               ![s].batches = Chunks(doc_chunks[s]),
                                               ![s].has_images = TRUE]
                       /\ UNCHANGED <<status, error>>
    /\ UNCHANGED <<selected_pages, processed_chunks, cards, taskFrame, metricVars>>

\* one iteration of the chunk loop of process_markdown_and_generate_cards;
\* card_count is the local counter, raised at the end of each card's block
markdown_batch(s) ==
    /\ task[s].pc = "md"
    /\ task[s].idx < Len(task[s].batches)
    /\ \E out \in Outcomes(s), counted \in BOOLEAN :
       LET t == task[s]
           added == NewCards(out.n, t.idx, runs[s])
       IN  /\ out.type # "partial" => counted
           /\ CASE out.type = "raise" ->
                  /\ task' = [task EXCEPT ![s].errors = Append(@, out.msg),
                                          ![s].idx = @ + 1]
                  /\ UNCHANGED <<cards, processed_chunks>>
             [] out.type = "ok" ->
                  /\ cards' = [cards EXCEPT ![s] = CommitCards(@, t.uow, added)]
                  /\ processed_chunks' = [processed_chunks EXCEPT ![s] = t.idx + 1]
                  /\ task' = [task EXCEPT ![s].uow = <<>>,
                                          ![s].card_count = @ + out.n,
                                          ![s].ok_cards = @ + out.n,
                                          ![s].idx = @ + 1]
             [] out.type = "partial" ->
                  \* the exception hits the last added card before (not counted)
                  \* or after (counted) its "card_count += 1"
                  /\ task' = [task EXCEPT
                                 ![s].uow = @ \o added,
                                 ![s].card_count = @ + (IF counted THEN out.n ELSE out.n - 1),
                                 ![s].errors = Append(@, out.msg),
                                 ![s].idx = @ + 1]
                  /\ UNCHANGED <<cards, processed_chunks>>
    /\ UNCHANGED <<status, selected_pages, total_chunks, error, taskFrame, metricVars>>

\* after the chunk loop of process_markdown_and_generate_cards
markdown_task_finish(s) ==
    /\ task[s].pc = "md"
    /\ task[s].idx = Len(task[s].batches)
    /\ LET final == FinalStatus(task[s].card_count, task[s].errors)
       IN  /\ status' = [status EXCEPT ![s] = final]
           /\ error' = [error EXCEPT
                           ![s] = IF final = "failed" THEN ErrorSummary(task[s].errors) ELSE @]
    /\ total_cards_generated' =
          update_prompt_metrics(total_cards_generated, task[s].card_count)
    /\ cards' = [cards EXCEPT ![s] = CommitCards(@, task[s].uow, <<>>)]
    /\ task' = [task EXCEPT ![s] = Done(task[s])]
    /\ UNCHANGED <<selected_pages, total_chunks, processed_chunks, taskFrame>>

\* -------------------------------------------------------------- restart
\* the process dies (its tasks with it) and starts again: lifespan() runs
\* recover_stuck_sessions before any request is served
restart ==
    /\ boots < MaxRestarts
    /\ boots' = boots + 1
    /\ status' = recover_stuck_sessions(status)
    /\ task' = [s \in Sessions |-> IdleTask]
    /\ UNCHANGED <<source_type, llm_provider, doc_pages, doc_chunks, use_native_pdf,
                   selected_pages, total_chunks, processed_chunks, error, cards,
                   runs, batchVars, recoverVars, reviewVars, promptVars, moduleVars, metricVars>>

Next ==
    \/ \E s \in Sessions : upload_pdf(s)
    \/ \E s \in Sessions : upload_pdf_preview(s)
    \/ \E s \in Sessions : upload_markdown_preview(s)
    \/ \E s \in Sessions : start_generation(s)
    \/ \E s \in Sessions : continue_generation_endpoint(s)
    \/ \E s \in Sessions : finalize_session_endpoint(s)
    \/ \E s \in Sessions : pdf_task_start(s)
    \/ \E s \in Sessions : native_batch(s)
    \/ \E s \in Sessions : text_batch(s)
    \/ \E s \in Sessions : pdf_task_finish(s)
    \/ \E s \in Sessions : continue_task_start(s)
    \/ \E s \in Sessions : continue_batch(s)
    \/ \E s \in Sessions : continue_task_finish(s)
    \/ \E s \in Sessions : markdown_task_start(s)
    \/ \E s \in Sessions : markdown_batch(s)
    \/ \E s \in Sessions : markdown_task_finish(s)
    \/ restart

Spec == Init /\ [][Next]_vars

\* ------------------------------------------- create_page_batches on its own
\* sequences of distinct indices of length n over 0..MaxLen-1
UniqueSeqs(n) ==
    {q \in [1..n -> 0..(MaxLen - 1)] : \A i, j \in 1..n : i # j => q[i] # q[j]}

InitBatch ==
    /\ InitSessions
    /\ NoRecoverRun
    /\ NoReview
    /\ NoPrompts
    /\ b_pages \in UNION {UniqueSeqs(n) : n \in 0..MaxLen}
    /\ b_size \in 1..MaxBatchSize
    /\ b_overlap \in 0..(MaxBatchSize - 1)
    /\ b_overlap < b_size
    /\ b_result = <<>>
    /\ b_pc = "call"
    /\ NoModuleCall

call_create_page_batches ==
    /\ b_pc = "call"
    /\ b_result' = create_page_batches(b_pages, b_size, b_overlap)
    /\ b_pc' = "returned"
    /\ UNCHANGED <<b_pages, b_size, b_overlap, sessVars, recoverVars, reviewVars, promptVars, moduleVars, metricVars>>

NextBatch == call_create_page_batches

SpecBatch == InitBatch /\ [][NextBatch]_vars

\* ----------------------------------------- recover_stuck_sessions on a table
\* every status a committed session row can have
RowStatuses == {"pending", "processing", "ready", "failed", "finalized"}

\* the sessions table the process finds at start-up: rows are independent, so
\* any combination of statuses can be there
InitRecover ==
    /\ InitSessions
    /\ NoBatchCall
    /\ NoReview
    /\ NoPrompts
    /\ r_status \in [1..MaxRows -> RowStatuses]
    /\ r_runs = 0
    /\ NoModuleCall

\* lifespan(): recover_stuck_sessions() of one more process start
startup_recovery ==
    /\ r_runs < MaxStarts
    /\ r_status' = recover_stuck_sessions(r_status)
    /\ r_runs' = r_runs + 1
    /\ UNCHANGED <<sessVars, batchVars, reviewVars, promptVars, moduleVars, metricVars>>

NextRecover == startup_recovery

SpecRecover == InitRecover /\ [][NextRecover]_vars

\* ============================================================ card review
\* backend/services/card_service.py behind backend/api/v1/cards.py.  Every
\* endpoint is an `async def` without an await, so a request is one step.

\* None in a nullable Text column, None in a nullable DateTime column
NoneText == "None"
NoTime == -1

\* Python truth value of a str | None
Falsy(x) == x \in {NoneText, ""}

\* front/back the generation stores: card_data.get("front", ""), .get("back", "")
GeneratedContents == {[front |-> "", back |-> "b0"], [front |-> "f0", back |-> "b0"]}

\* bodies of an edit request (CardEditRequest)
EditRequests == {[front |-> "f1", back |-> "b1"], [front |-> "f2", back |-> "b2"]}

\* JSON objects the model answers an auto-correct with
Responses == {[front |-> "f3", back |-> "b3"], [front |-> Missing, back |-> "b3"]}

\* the Card row a generation run inserts
PendingCard(content) ==
    [front |-> content.front, back |-> content.back, status |-> "pending",
     original_front |-> NoneText, original_back |-> NoneText, reviewed_at |-> NoTime]

\* ids a request may name: the rows of the table and one id that has no row
RequestIds == 1..(MaxCardRows + 1)

\* card_ids of a batch request
IdLists == UNION {[1..n -> RequestIds] : n \in 0..MaxIds}

\* get_card(db, card_id) is not None
HasCard(table, card_id) == card_id \in DOMAIN table

\* str(e) of the ValueErrors of card_service, detail of the endpoints' errors
NotFoundError(card_id) == "Card " \o ToString(card_id) \o " not found"
NoHistoryError(card_id) == "Card " \o ToString(card_id) \o " has no rejection history"
AutoCorrectError(e) == "Failed to auto-correct card: " \o e
CardNotFoundDetail == "Card not found"
ProviderError == "API key is required but not provided"

\* datetime.utcnow() of the next statement: not before the last value read
Times == c_clock..Min(c_clock + 1, MaxClock)

\* approve_card on the row it found
approve_card(card, now) == [card EXCEPT !.status = "approved", !.reviewed_at = now]

reject_card_Unstamped(card, now) == [card EXCEPT !.status = "rejected"]

\* reject_card on the row it found, and the CardRejection row it adds
reject_card(card, now) == [card EXCEPT !.status = "rejected", !.reviewed_at = now]
NewRejection(card_id, now) ==
    [card_id |-> card_id, auto_corrected |-> FALSE, created_at |-> now]

\* "if not card.original_front: card.original_front = card.front; ..."
Snapshot(card) ==
    IF Falsy(card.original_front)
    THEN [card EXCEPT !.original_front = card.front, !.original_back = card.back]
    ELSE card

\* edit_card on the row it found (tags are not part of the state)
edit_card(card, request, now) ==
    [Snapshot(card) EXCEPT !.front = request.front, !.back = request.back,
                           !.status = "edited", !.reviewed_at = now]

LatestRejections_AnyCard(rejections, card_id) ==
    {k \in DOMAIN rejections :
        \A j \in DOMAIN rejections : rejections[j].created_at <= rejections[k].created_at}

LatestRejections_Oldest(rejections, card_id) ==
    {k \in DOMAIN rejections :
        /\ rejections[k].card_id = card_id
        /\ \A j \in DOMAIN rejections :
              rejections[j].card_id = card_id
              => rejections[k].created_at <= rejections[j].created_at}

\* query(CardRejection).filter(card_id == card_id).order_by(created_at.desc())
\* .first(): the rows it can return (one of those with the newest timestamp);
\* empty when the card has no rejection
LatestRejections(rejections, card_id) ==
    {k \in DOMAIN rejections :
        /\ rejections[k].card_id = card_id
        /\ \A j \in DOMAIN rejections :
              rejections[j].card_id = card_id
              => rejections[j].created_at <= rejections[k].created_at}

\* response.get(key, default)
ResponseGet(response, key, default) ==
    IF response[key] = Missing THEN default ELSE response[key]

\* auto_correct_card after the model has answered: the row it commits
Corrected(card, response, now) ==
    [Snapshot(card) EXCEPT !.front = ResponseGet(response, "front", card.front),
                           !.back = ResponseGet(response, "back", card.back),
                           !.status = "pending", !.reviewed_at = now]

AfterFailed_Abort(ids) == <<>>

\* "except Exception: failed += 1" of the batch loops: on to the next id
AfterFailed(ids) == Tail(ids)

\* "for card_id in card_ids" of batch_approve_cards / batch_reject_cards from
\* the state st on; ticks[k]: how far the clock has moved at the k-th id
RECURSIVE BatchCards(_, _, _, _)
BatchCards(op, st, ids, ticks) ==
    IF ids = <<>> THEN st
    ELSE LET card_id == Head(ids)
             now == st.clock + Head(ticks)
         IN  IF ~HasCard(st.cards, card_id)
             THEN BatchCards(op, [st EXCEPT !.failed = @ + 1], AfterFailed(ids),
                             Tail(ticks))
             ELSE BatchCards(op,
                    [st EXCEPT
                       !.cards[card_id] = IF op = "batch_approve"
                                          THEN approve_card(@, now) ELSE reject_card(@, now),
                       !.rejections = IF op = "batch_approve" THEN @
                                      ELSE Append(@, NewRejection(card_id, now)),
                       !.clock = now,
                       !.processed = @ + 1],
                    Tail(ids), Tail(ticks))

InitCards ==
    /\ InitSessions
    /\ NoBatchCall
    /\ NoRecoverRun
    /\ NoPrompts
    /\ c_cards \in [1..MaxCardRows -> {PendingCard(g) : g \in GeneratedContents}]
    /\ c_rejections = <<>>
    /\ c_clock = 0
    /\ c_calls = 0
    /\ c_result = NoResult
    /\ NoModuleCall

Result(op, ids, arg, err, processed, failed) ==
    [n |-> c_result.n + 1, op |-> op, ids |-> ids, arg |-> arg, error |-> err,
     processed |-> processed, failed |-> failed]

reviewFrame == <<sessVars, batchVars, recoverVars, promptVars, moduleVars, metricVars>>

\* PATCH /{card_id}/approve
approve_card_endpoint ==
    /\ c_result.n < MaxOps
    /\ \E card_id \in RequestIds, now \in Times :
       IF HasCard(c_cards, card_id)
       THEN /\ c_cards' = [c_cards EXCEPT ![card_id] = approve_card(@, now)]
            /\ c_clock' = now
            /\ c_result' = Result("approve", <<card_id>>, NoArg, NoError, 0, 0)
       ELSE /\ c_result' = Result("approve", <<card_id>>, NoArg, NotFoundError(card_id), 0, 0)
            /\ UNCHANGED <<c_cards, c_clock>>
    /\ UNCHANGED <<c_rejections, c_calls, reviewFrame>>

\* PATCH /{card_id}/reject
reject_card_endpoint ==
    /\ c_result.n < MaxOps
    /\ \E card_id \in RequestIds, now \in Times :
       IF HasCard(c_cards, card_id)
       THEN /\ c_cards' = [c_cards EXCEPT ![card_id] = reject_card(@, now)]
            /\ c_rejections' = Append(c_rejections, NewRejection(card_id, now))
            /\ c_clock' = now
            /\ c_result' = Result("reject", <<card_id>>, NoArg, NoError, 0, 0)
       ELSE /\ c_result' = Result("reject", <<card_id>>, NoArg, NotFoundError(card_id), 0, 0)
            /\ UNCHANGED <<c_cards, c_rejections, c_clock>>
    /\ UNCHANGED <<c_calls, reviewFrame>>

\* PATCH /{card_id}/edit
edit_card_endpoint ==
    /\ c_result.n < MaxOps
    /\ \E card_id \in RequestIds, request \in EditRequests, now \in Times :
       IF HasCard(c_cards, card_id)
       THEN /\ c_cards' = [c_cards EXCEPT ![card_id] = edit_card(@, request, now)]
            /\ c_clock' = now
            /\ c_result' = Result("edit", <<card_id>>, request, NoError, 0, 0)
       ELSE /\ c_result' = Result("edit", <<card_id>>, request, NotFoundError(card_id), 0, 0)
            /\ UNCHANGED <<c_cards, c_clock>>
    /\ UNCHANGED <<c_rejections, c_calls, reviewFrame>>

\* POST /{card_id}/auto-correct with auto_correct_card.
\* outcome "init": LLMInterface() raises; "call": generate_structured_output
\* raises; otherwise the JSON object the model answered
auto_correct_card_endpoint ==
    /\ c_result.n < MaxOps
    /\ \E card_id \in RequestIds, now \in Times,
          outcome \in {[front |-> "init", back |-> Missing],
                       [front |-> "call", back |-> Missing]} \cup Responses :
       LET latest == LatestRejections(c_rejections, card_id)
           called == outcome.front # "init"
       IN  IF ~HasCard(c_cards, card_id)
           THEN /\ c_result' = Result("auto_correct", <<card_id>>, NoArg,
                                      CardNotFoundDetail, 0, 0)
                /\ UNCHANGED <<c_cards, c_rejections, c_clock, c_calls>>
           ELSE IF latest = {}
           THEN /\ c_result' = Result("auto_correct", <<card_id>>, NoArg,
                                      NoHistoryError(card_id), 0, 0)
                /\ UNCHANGED <<c_cards, c_rejections, c_clock, c_calls>>
           ELSE IF outcome \notin Responses
           THEN /\ c_result' = Result("auto_correct", <<card_id>>, NoArg,
                                      AutoCorrectError(IF called THEN "rate limit exceeded"
                                                       ELSE ProviderError), 0, 0)
                /\ c_calls' = IF called THEN c_calls + 1 ELSE c_calls
                /\ UNCHANGED <<c_cards, c_rejections, c_clock>>
           ELSE \E k \in latest :
                /\ c_cards' = [c_cards EXCEPT ![card_id] = Corrected(@, outcome, now)]
                /\ c_rejections' = [c_rejections EXCEPT ![k].auto_corrected = TRUE]
                /\ c_clock' = now
                /\ c_calls' = c_calls + 1
                /\ c_result' = Result("auto_correct", <<card_id>>, outcome, NoError, 0, 0)
    /\ UNCHANGED reviewFrame

\* POST /batch/approve and POST /batch/reject
batch_endpoint(op) ==
    /\ c_result.n < MaxOps
    /\ \E ids \in IdLists :
       \E ticks \in [1..Len(ids) -> {0, 1}] :
          LET st == BatchCards(op,
                       [cards |-> c_cards, rejections |-> c_rejections,
                        clock |-> c_clock, processed |-> 0, failed |-> 0],
                       ids, ticks)
          IN  /\ st.clock <= MaxClock
              /\ c_cards' = st.cards
              /\ c_rejections' = st.rejections
              /\ c_clock' = st.clock
              /\ c_result' = Result(op, ids, NoArg, NoError, st.processed, st.failed)
    /\ UNCHANGED <<c_calls, reviewFrame>>

batch_approve_endpoint == batch_endpoint("batch_approve")

batch_reject_endpoint == batch_endpoint("batch_reject")

NextCards ==
    \/ approve_card_endpoint
    \/ reject_card_endpoint
    \/ edit_card_endpoint
    \/ auto_correct_card_endpoint
    \/ batch_approve_endpoint
    \/ batch_reject_endpoint

SpecCards == InitCards /\ [][NextCards]_vars

\* ================================================== structured-output calls
\* modules/llm_interface.py. A response is a list of tokens: code fences,
\* whitespace, prose and JSON values; an exception text is a list of words.

max_attempts == 5
max_retries == 3

\* [fence] stands for the three backquotes of a Markdown code fence
FenceJson == "[fence]json"
Fence == "[fence]"
Blank == "\n"
Space == " "
Whitespace == {Blank, Space}
Prose == "Here are the cards:"
CardsObject == "{\"cards\": [{\"front\": \"Q\", \"back\": \"A\"}]}"
EmptyCardsObject == "{\"cards\": []}"
OtherObject == "{\"flashcards\": [{\"front\": \"Q\", \"back\": \"A\"}]}"
JsonArray == "[{\"front\": \"Q\", \"back\": \"A\"}]"

JsonTexts == {CardsObject, EmptyCardsObject, OtherObject, JsonArray}
Tokens == {FenceJson, Fence, Blank, Prose} \cup JsonTexts
ProviderTexts == UNION {[1..n -> Tokens] : n \in 0..MaxTokens}

\* the Python value json.loads makes of a JSON text
JsonValue(text) ==
    CASE text = CardsObject -> [type |-> "dict", keys |-> {"cards"}, cards |-> 1]
      [] text = EmptyCardsObject -> [type |-> "dict", keys |-> {"cards"}, cards |-> 0]
      [] text = OtherObject -> [type |-> "dict", keys |-> {"flashcards"}, cards |-> 0]
      [] text = JsonArray -> [type |-> "list", keys |-> {}, cards |-> 0]

\* str.strip()
RECURSIVE LStrip(_)
LStrip(r) == IF r # <<>> /\ Head(r) \in Whitespace THEN LStrip(Tail(r)) ELSE r

RECURSIVE RStrip(_)
RStrip(r) ==
    IF r # <<>> /\ r[Len(r)] \in Whitespace THEN RStrip(SubSeq(r, 1, Len(r) - 1)) ELSE r

Strip(r) == RStrip(LStrip(r))

\* response.split("```json")[1] of a response that starts with the fence: what
\* lies between the first fence and the next one
SplitJsonFence(r) ==
    LET rest == Tail(r)
        next == {i \in DOMAIN rest : rest[i] = FenceJson}
    IN  IF next = {} THEN rest
        ELSE SubSeq(rest, 1, (CHOOSE i \in next : \A j \in next : i <= j) - 1)

\* the three statements between the round trip and json.loads
StripFences(response) ==
    LET stripped == Strip(response)
        opened == IF stripped # <<>> /\ Head(stripped) = FenceJson
                  THEN SplitJsonFence(stripped) ELSE stripped
    IN  IF opened # <<>> /\ opened[Len(opened)] = Fence
        THEN SubSeq(opened, 1, Len(opened) - 1) ELSE opened

\* json.loads: one JSON value with whitespace around it, else JSONDecodeError
json_loads(text) ==
    LET body == SelectSeq(text, LAMBDA k : k # Blank)
    IN  IF Len(body) = 1 /\ body[1] \in JsonTexts
        THEN [ok |-> TRUE, value |-> JsonValue(body[1])]
        ELSE [ok |-> FALSE, value |-> NoJson]

JSONDecodeError == <<"Expecting", "value:", "line", "1", "column", "1">>
ImageSupportError == <<"Image", "support", "requires", "Anthropic", "provider">>

\* exception texts of the provider's client
ProviderErrors ==
    {<<"Rate", "limit", "reached", "for", "requests">>,
     <<"Error", "code:", "429", "rate_limit_error">>,
     <<"Connection", "error.">>}

\* str.lower() on the words of a text
LowerWord(w) == IF w = "Rate" THEN "rate" ELSE IF w = "Error" THEN "error"
                ELSE IF w = "Connection" THEN "connection" ELSE w
Lower(words) == [i \in DOMAIN words |-> LowerWord(words[i])]

\* "rate limit" in str(e).lower()
IsRateLimit(e) ==
    \E i \in 1..(Len(e) - 1) : Lower(e)[i] = "rate" /\ Lower(e)[i + 1] = "limit"

RECURSIVE Pow2(_)
Pow2(n) == IF n = 0 THEN 1 ELSE 2 * Pow2(n - 1)

Delay_Uncapped(attempt) == 10 * Pow2(attempt)

\* delay = min(60, 10 * (2 ** attempt))
Delay(attempt) == Min(60, 10 * Pow2(attempt))

Exhausted_OneLate(attempt) == attempt = max_attempts

\* "attempt == max_attempts - 1" of _retry_on_rate_limit
Exhausted(attempt) == attempt = max_attempts - 1

GiveUp_OneLate(attempt) == attempt = max_retries

\* "if attempt == max_retries - 1: raise"
GiveUp(attempt) == attempt = max_retries - 1

Admonition == "YOUR PREVIOUS RESPONSE WAS NOT VALID JSON."
\* enhanced_system_prompt as the structured functions build it
EnhancedSystemPrompt == <<"system_prompt", "format_description">>
\* enhanced_system_prompt += "\nYOUR PREVIOUS RESPONSE WAS NOT VALID JSON. ..."
Admonish(system) == Append(system, Admonition)

StructuredFunctions ==
    {"generate_structured_output", "generate_structured_from_pdf",
     "generate_structured_from_markdown"}

InitLlm ==
    /\ InitSessions
    /\ NoBatchCall
    /\ NoRecoverRun
    /\ NoReview
    /\ NoPrompts
    /\ NoModuleCall

llmFrame == <<sessVars, batchVars, recoverVars, reviewVars, promptVars, segmentVars,
              flashVars, imageVars, serviceVars, metricVars>>

\* a caller enters one of the structured-output functions: the prompts are
\* built and the first round trip begins
structured_call ==
    /\ l_pc = "idle"
    /\ \E fn \in StructuredFunctions, provider \in Providers :
          /\ l_fn' = fn
          /\ l_provider' = provider
          /\ IF fn = "generate_structured_from_markdown" /\ ~SupportsNativePdf(provider)
             THEN /\ l_pc' = "raised"
                  /\ l_result' = [kind |-> "error", value |-> NoJson,
                                  error |-> ImageSupportError]
                  /\ UNCHANGED <<l_system, l_sent>>
             ELSE /\ l_pc' = "calling"
                  /\ l_system' = EnhancedSystemPrompt
                  /\ l_sent' = <<EnhancedSystemPrompt>>
                  /\ UNCHANGED l_result
    /\ UNCHANGED <<l_attempt, l_calls, l_waits, l_total, l_response, l_batch, llmFrame>>

\* the provider answers the call _retry_on_rate_limit made; the text goes
\* back to the structured function
provider_returns ==
    /\ l_pc = "calling"
    /\ \E response \in ProviderTexts :
          l_response' = [kind |-> "text", body |-> response]
    /\ l_calls' = l_calls + 1
    /\ l_total' = l_total + 1
    /\ l_pc' = "parsing"
    /\ UNCHANGED <<l_fn, l_provider, l_attempt, l_system, l_sent, l_waits, l_result,
                   l_batch, llmFrame>>

\* the rest of the try block and the except branch: strip the fences and
\* parse; a text that does not parse starts the next round trip with one more
\* admonition or, on the last attempt, raises; "response" is not read again
\* once the next round trip has begun
parse_response ==
    /\ l_pc = "parsing"
    /\ LET parsed == json_loads(StripFences(l_response.body))
       IN  IF parsed.ok
           THEN /\ l_pc' = "returned"
                /\ l_result' = [kind |-> "value", value |-> parsed.value, error |-> <<>>]
                /\ UNCHANGED <<l_attempt, l_system, l_sent, l_calls, l_waits, l_response>>
           ELSE IF GiveUp(l_attempt)
           THEN /\ l_pc' = "raised"
                /\ l_result' = [kind |-> "error", value |-> NoJson,
                                error |-> JSONDecodeError]
                /\ UNCHANGED <<l_attempt, l_system, l_sent, l_calls, l_waits, l_response>>
           ELSE /\ l_pc' = "calling"
                /\ l_attempt' = l_attempt + 1
                /\ l_system' = Admonish(l_system)
                /\ l_sent' = Append(l_sent, Admonish(l_system))
                /\ l_calls' = 0
                /\ l_waits' = <<>>
                /\ l_response' = [kind |-> "none", body |-> <<>>]
                /\ UNCHANGED l_result
    /\ UNCHANGED <<l_fn, l_provider, l_total, l_batch, llmFrame>>

\* the provider's client raises in the call _retry_on_rate_limit made: a
\* recognized rate-limit error before the last attempt is slept on, any other
\* leaves _retry_on_rate_limit and, not being a JSONDecodeError, the
\* structured function too
provider_raises ==
    /\ l_pc = "calling"
    /\ \E e \in ProviderErrors :
          /\ l_response' = [kind |-> "error", body |-> e]
          /\ l_calls' = l_calls + 1
          /\ l_total' = l_total + 1
          /\ IF ~IsRateLimit(e) \/ Exhausted(l_calls)
             THEN /\ l_pc' = "raised"
                  /\ l_result' = [kind |-> "error", value |-> NoJson, error |-> e]
                  /\ UNCHANGED l_waits
             ELSE /\ l_waits' = Append(l_waits, Delay(l_calls))
                  /\ UNCHANGED <<l_pc, l_result>>
    /\ UNCHANGED <<l_fn, l_provider, l_attempt, l_system, l_sent, l_batch, llmFrame>>

\* the batch loop that made the call: "for card_data in response.get("cards",
\* [])" on the value returned, the except branch on an exception
card_loop ==
    /\ l_pc \in {"returned", "raised"}
    /\ l_batch.kind = "none"
    /\ l_batch' =
          IF l_pc = "raised" \/ l_result.value.type # "dict"
          THEN [kind |-> "error", cards |-> 0]
          ELSE [kind |-> "ok",
                cards |-> IF "cards" \in l_result.value.keys
                          THEN l_result.value.cards ELSE 0]
    /\ UNCHANGED <<l_fn, l_provider, l_pc, l_attempt, l_system, l_sent, l_calls,
                   l_waits, l_total, l_response, l_result, llmFrame>>

NextLlm ==
    \/ structured_call
    \/ provider_returns
    \/ parse_response
    \/ provider_raises
    \/ card_loop

SpecLlm == InitLlm /\ [][NextLlm]_vars

\* a call that was begun goes on: the provider answers or its client raises
\* (every request has a timeout), time.sleep returns, json.loads returns
SpecLlmFair == SpecLlm /\ WF_vars(NextLlm)

\* ======================================================= text segmentation
\* modules/pdf_processor.py. A text is a list of tokens: newline, space, words
\* of 4 and of 10 letters and a number of 4 digits.

ShortWord == "fact"
LongWord == "flashcards"
Number == "2024"
TextTokens == {Blank, Space, ShortWord, LongWord, Number}
Texts == UNION {[1..n -> TextTokens] : n \in 0..MaxText}

\* len() of a token and of a text
TokenLen(k) == IF k \in Whitespace THEN 1 ELSE IF k = LongWord THEN 10 ELSE 4

RECURSIVE TextLen(_)
TextLen(text) == IF text = <<>> THEN 0 ELSE TokenLen(Head(text)) + TextLen(Tail(text))

\* text.split(sep) for a separator of one or two newlines: the pieces between
\* the occurrences of sep, found from the left without overlap
RECURSIVE SplitText(_, _, _)
SplitText(text, sep, piece) ==
    IF text = <<>> THEN <<piece>>
    ELSE IF Len(text) >= Len(sep) /\ SubSeq(text, 1, Len(sep)) = sep
    THEN <<piece>> \o SplitText(SubSeq(text, Len(sep) + 1, Len(text)), sep, <<>>)
    ELSE SplitText(Tail(text), sep, Append(piece, Head(text)))

\* text.split(): the runs of tokens that are not whitespace
Words(text) == SelectSeq(text, LAMBDA k : k \notin Whitespace)

\* sep.join(pieces)
RECURSIVE Join(_, _)
Join(sep, pieces) ==
    IF pieces = <<>> THEN <<>>
    ELSE IF Len(pieces) = 1 THEN pieces[1]
    ELSE pieces[1] \o sep \o Join(sep, Tail(pieces))

\* line.strip().isdigit()
IsDigit(line) == Strip(line) = <<Number>>

\* clean_text: drop the lines that are a number or shorter than 10 characters,
\* then put one space between the words that remain (the inputs have no
\* hyphen, so the removal of "- " has nothing to remove)
clean_text(text) ==
    IF text = <<>> THEN <<>>
    ELSE LET lines == SplitText(text, <<Blank>>, <<>>)
             keep(line) == /\ ~IsDigit(line)
                           /\ ~(TextLen(Strip(line)) < 10 /\ Strip(line) # <<>>)
             cleaned_lines == SelectSeq(lines, keep)
             cleaned_text == Join(<<Blank>>, cleaned_lines)
         IN  Join(<<Space>>, [i \in DOMAIN Words(cleaned_text) |-> <<Words(cleaned_text)[i]>>])

\* the loop "for paragraph in paragraphs" of segment_content and the
\* statements after it
RECURSIVE SegmentLoop(_, _, _, _)
SegmentLoop(paragraphs, current_chunk, chunks, chunk_size) ==
    IF paragraphs = <<>>
    THEN IF current_chunk # <<>> THEN Append(chunks, Strip(current_chunk)) ELSE chunks
    ELSE LET paragraph == Head(paragraphs)
         IN  IF TextLen(current_chunk) + TextLen(paragraph) <= chunk_size
             THEN SegmentLoop(Tail(paragraphs),
                              current_chunk \o paragraph \o <<Blank, Blank>>,
                              chunks, chunk_size)
             ELSE SegmentLoop(Tail(paragraphs), paragraph \o <<Blank, Blank>>,
                              IF current_chunk # <<>>
                              THEN Append(chunks, Strip(current_chunk)) ELSE chunks,
                              chunk_size)

segment_content(text, chunk_size) ==
    IF text = <<>> THEN <<>>
    ELSE SegmentLoop(SplitText(text, <<Blank, Blank>>, <<>>), <<>>, <<>>, chunk_size)

InitSegment ==
    /\ InitSessions
    /\ NoBatchCall
    /\ NoRecoverRun
    /\ NoReview
    /\ NoPrompts
    /\ NoLlmCall
    /\ NoFlashCard
    /\ NoImages
    /\ NoServiceCall
    /\ g_text \in Texts
    /\ g_chunk_size \in 1..MaxChunkSize
    /\ g_chunks = <<>>
    /\ g_pc = "call"

segmentFrame == <<sessVars, batchVars, recoverVars, reviewVars, promptVars, llmVars,
                  flashVars, imageVars, serviceVars, metricVars>>

\* PDFProcessor(chunk_size).segment_content(text)
call_segment_content ==
    /\ g_pc = "call"
    /\ g_chunks' = segment_content(g_text, g_chunk_size)
    /\ g_pc' = "segment_content"
    /\ UNCHANGED <<g_text, g_chunk_size, segmentFrame>>

\* process_pdf on a document whose extracted text is g_text: clean_text, then
\* segment_content
call_process_pdf ==
    /\ g_pc = "call"
    /\ g_chunks' = segment_content(clean_text(g_text), g_chunk_size)
    /\ g_pc' = "process_pdf"
    /\ UNCHANGED <<g_text, g_chunk_size, segmentFrame>>

NextSegment ==
    \/ call_segment_content
    \/ call_process_pdf

SpecSegment == InitSegment /\ [][NextSegment]_vars

\* =============================================================== FlashCard
\* modules/card_generation.py

StrValues == {Str("Q"), Str(""), NoneStr}
TagNames == {"python", "tdd"}
ListValues ==
    {List(l) : l \in UNION {[1..n -> TagNames] : n \in 0..MaxTags}} \cup {NoneList}

\* bool(value): None, "" and [] are false
Truthy(value) ==
    /\ value.type # "NoneType"
    /\ IF value.type = "str" THEN value.val # "" ELSE value.val # <<>>

TagsOrEmpty_Always(tags) == List(<<>>)

\* "tags or []"
TagsOrEmpty(tags) == IF Truthy(tags) THEN tags ELSE List(<<>>)

\* FlashCard(front, back, tags)
FlashCard(front, back, tags) ==
    [front |-> front, back |-> back, tags |-> TagsOrEmpty(tags)]

\* data.get(key, default) on the value found under the key
Get(value, default) == IF value.type = Missing THEN default ELSE value

to_dict(card) == [front |-> card.front, back |-> card.back, tags |-> card.tags]

from_dict(data) ==
    FlashCard(Get(data.front, Str("")), Get(data.back, Str("")),
              Get(data.tags, List(<<>>)))

\* the cards the constructor makes, the dicts from_dict can be given
FlashCards ==
    {FlashCard(front, back, tags) :
        front \in StrValues, back \in {Str("A")}, tags \in ListValues}
CardDicts ==
    [front : StrValues \cup {NoKeyStr}, back : {Str("A"), NoKeyStr},
     tags : ListValues \cup {NoKeyList}]

InitFlashCard ==
    /\ InitSessions
    /\ NoBatchCall
    /\ NoRecoverRun
    /\ NoReview
    /\ NoPrompts
    /\ NoLlmCall
    /\ NoSegmentCall
    /\ NoImages
    /\ NoServiceCall
    /\ f_card \in FlashCards
    /\ f_dict \in CardDicts
    /\ f_out = NoCard
    /\ f_pc = "call"

flashFrame == <<sessVars, batchVars, recoverVars, reviewVars, promptVars, llmVars,
                segmentVars, imageVars, serviceVars, metricVars>>

\* FlashCard.from_dict(card.to_dict())
card_round_trip ==
    /\ f_pc = "call"
    /\ f_out' = from_dict(to_dict(f_card))
    /\ f_pc' = "card"
    /\ UNCHANGED <<f_card, f_dict, flashFrame>>

\* FlashCard.from_dict(data).to_dict()
dict_round_trip ==
    /\ f_pc = "call"
    /\ f_out' = to_dict(from_dict(f_dict))
    /\ f_pc' = "dict"
    /\ UNCHANGED <<f_card, f_dict, flashFrame>>

NextFlashCard ==
    \/ card_round_trip
    \/ dict_round_trip

SpecFlashCard == InitFlashCard /\ [][NextFlashCard]_vars

\* ============================================================ card images
\* modules/pdf_image_extractor.py, modules/markdown_processor.py and the
\* card loop of _process_with_native_pdf. File names are lists of parts; two
\* sessions share the image directory.

ImageSessions == {1, 2}
DocNames == {<<"notes">>, <<"my", " ", "notes">>}

\* the pages of the uploaded PDF and its batches
ImagePages == PageRange(MaxPages)
ImageBatches == create_page_batches(ImagePages, BATCH_SIZE, BATCH_OVERLAP)

\* filename = f"page{page_num + 1}_img{img_index}.{ext}"
PdfImage(page_num, img_index) ==
    [page_num |-> page_num,
     original |-> <<"page", ToString(page_num + 1), "_img", ToString(img_index), ".png">>,
     name |-> <<>>]

\* extract_images_from_pdf: the embedded images of a document, here at most
\* one on its first and one on its last page
PdfImageSets == SUBSET {PdfImage(0, 0), PdfImage(MaxPages - 1, 0)}

\* a MarkdownImage: relative_path as written in the document and the name
\* of the file it resolves to
MarkdownImage(dir, name) ==
    [page_num |-> -1, original |-> <<dir, "/">> \o name, name |-> name]

MarkdownImageSets ==
    SUBSET {MarkdownImage("figs", <<"a", " ", "b.png">>),
            MarkdownImage("more", <<"a", " ", "b.png">>),
            MarkdownImage("figs", <<"a", "_", "b.png">>)}

\* str.replace(" ", "_")
ReplaceSpaces(name) == [k \in DOMAIN name |-> IF name[k] = Space THEN "_" ELSE name[k]]

\* config.settings.sanitize_filename is not in src/; as the deck tag is "a
\* sanitized identifier derived from the session's document name" it is
\* taken to replace what is not a word character
sanitize_filename(name) == ReplaceSpaces(name)

\* stored_name = f"{deck_prefix}_{img.filename}"
PdfStoredName(deck_prefix, img) == deck_prefix \o <<"_">> \o img.original

\* safe_name = name.replace(" ", "_"); stored_name = f"{session_id}_{safe_name}"
MarkdownStoredName(session_id, img) == session_id \o <<"_">> \o ReplaceSpaces(img.name)

\* the mapping save_pdf_images and get_image_mapping return
ImageMapping(doc) ==
    LET deck_tag == sanitize_filename(doc.name)
    IN  {[original |-> img.original,
          stored |-> IF doc.kind = "pdf" THEN PdfStoredName(deck_tag, img)
                     ELSE MarkdownStoredName(deck_tag, img)] : img \in doc.images}

\* out_path.write_bytes / shutil.copy2 for each image in turn: a file of the
\* same name is replaced
RECURSIVE WriteImages(_, _, _)
WriteImages(dir, s, mapping) ==
    IF mapping = {} THEN dir
    ELSE LET m == CHOOSE x \in mapping : TRUE
             file == [stored |-> m.stored, session |-> s, original |-> m.original]
         IN  WriteImages({f \in dir : f.stored # m.stored} \cup {file}, s,
                         mapping \ {m})

\* get_images_for_pages(all_images, page_batch), by file name: the manifest
BatchManifest(doc, page_batch) ==
    {img.original : img \in {x \in doc.images : x.page_num \in Range(page_batch)}}

\* file names a card_data's "images" list can carry
GhostImage == <<"diagram.png">>
ImageRefs ==
    UNION {[1..n -> {PdfImage(0, 0).original, PdfImage(MaxPages - 1, 0).original,
                     GhostImage}] : n \in 0..MaxRefs}

\* "for img_filename in card_data.get("images", [])": a row for each one that
\* is a key of image_mapping
RECURSIVE CardImageRows(_, _, _)
CardImageRows(s, images, mapping) ==
    IF images = <<>> THEN <<>>
    ELSE LET hit == {m \in mapping : m.original = Head(images)}
         IN  (IF hit = {} THEN <<>>
              ELSE <<[session_id |-> s, original_filename |-> Head(images),
                      stored_filename |-> (CHOOSE m \in hit : TRUE).stored]>>)
             \o CardImageRows(s, Tail(images), mapping)

InitImages ==
    /\ InitSessions
    /\ NoBatchCall
    /\ NoRecoverRun
    /\ NoReview
    /\ NoPrompts
    /\ NoLlmCall
    /\ NoSegmentCall
    /\ NoFlashCard
    /\ NoServiceCall
    /\ i_doc \in [ImageSessions ->
                    [kind : {"pdf"}, name : DocNames, images : PdfImageSets]
                    \cup [kind : {"markdown"}, name : DocNames,
                          images : MarkdownImageSets]]
    /\ i_pc = [s \in ImageSessions |-> "uploaded"]
    /\ i_mapping = [s \in ImageSessions |-> {}]
    /\ i_dir = {}
    /\ i_card = NoCardData
    /\ i_rows = <<>>

imageFrame == <<sessVars, batchVars, recoverVars, reviewVars, promptVars, llmVars,
                segmentVars, flashVars, serviceVars, metricVars>>

\* _process_with_native_pdf before its batch loop: extract the images, save
\* them under the deck tag, keep the mapping
store_pdf_images(s) ==
    /\ i_doc[s].kind = "pdf"
    /\ i_pc[s] = "uploaded"
    /\ i_mapping' = [i_mapping EXCEPT ![s] = ImageMapping(i_doc[s])]
    /\ i_dir' = WriteImages(i_dir, s, ImageMapping(i_doc[s]))
    /\ i_pc' = [i_pc EXCEPT ![s] = "stored"]
    /\ UNCHANGED <<i_doc, i_card, i_rows, imageFrame>>

\* process_markdown_and_generate_cards before its chunk loop:
\* get_image_mapping and copy_images_to_storage
store_markdown_images(s) ==
    /\ i_doc[s].kind = "markdown"
    /\ i_pc[s] = "uploaded"
    /\ i_mapping' = [i_mapping EXCEPT ![s] = ImageMapping(i_doc[s])]
    /\ i_dir' = WriteImages(i_dir, s, ImageMapping(i_doc[s]))
    /\ i_pc' = [i_pc EXCEPT ![s] = "stored"]
    /\ UNCHANGED <<i_doc, i_card, i_rows, imageFrame>>

\* the card loop of _process_with_native_pdf for one card_data of a batch
create_card_images(s) ==
    /\ i_doc[s].kind = "pdf"
    /\ i_pc[s] = "stored"
    /\ \E b \in DOMAIN ImageBatches, images \in ImageRefs :
          /\ i_card' = [session |-> s, page_batch |-> ImageBatches[b], images |-> images]
          /\ i_rows' = IF i_doc[s].images # {}
                       THEN CardImageRows(s, images, i_mapping[s]) ELSE <<>>
    /\ UNCHANGED <<i_doc, i_pc, i_mapping, i_dir, imageFrame>>

\* file names a card_data of the Markdown path can carry: a relative path of
\* the document, the name of a file, the end of a name, and a file the
\* document does not have
MarkdownFileNames ==
    {<<"figs", "/", "a", " ", "b.png">>, <<"a", " ", "b.png">>, <<"b.png">>, GhostImage}
MarkdownRefs == UNION {[1..n -> MarkdownFileNames] : n \in 0..MaxRefs}

\* doc.images as a list: the images in the order of the document
Orderings(S) == {seq \in [1..Cardinality(S) -> S] : Range(seq) = S}

\* "a in b" of two str
IsSubstring(part, whole) ==
    \E i \in 0..(Len(whole) - Len(part)) : SubSeq(whole, i + 1, i + Len(part)) = part

\* "img_filename in img.relative_path or Path(img.relative_path).name == img_filename"
Matches(img_filename, img) ==
    IsSubstring(img_filename, img.original) \/ img.name = img_filename

\* the loop over existing_images with its break: the position of the first
\* image that matches, 0 for matching_img = None
MatchingImage(img_filename, existing_images) ==
    LET hits == {k \in DOMAIN existing_images : Matches(img_filename, existing_images[k])}
    IN  IF hits = {} THEN 0 ELSE CHOOSE k \in hits : \A j \in hits : k <= j

\* "for img_filename in card_images_list" of the Markdown path
RECURSIVE MarkdownCardImageRows(_, _, _, _)
MarkdownCardImageRows(s, images, existing_images, mapping) ==
    IF images = <<>> THEN <<>>
    ELSE LET k == MatchingImage(Head(images), existing_images)
             hit == IF k = 0 THEN {}
                    ELSE {m \in mapping : m.original = existing_images[k].original}
         IN  (IF hit = {} THEN <<>>
              ELSE <<[session_id |-> s, original_filename |-> Head(images),
                      stored_filename |-> (CHOOSE m \in hit : TRUE).stored]>>)
             \o MarkdownCardImageRows(s, Tail(images), existing_images, mapping)

\* the card loop of process_markdown_and_generate_cards for one card_data
create_markdown_card_images(s) ==
    /\ i_doc[s].kind = "markdown"
    /\ i_pc[s] = "stored"
    /\ \E existing_images \in Orderings(i_doc[s].images), images \in MarkdownRefs :
          /\ i_card' = [session |-> s, page_batch |-> <<>>, images |-> images]
          /\ i_rows' = MarkdownCardImageRows(s, images, existing_images, i_mapping[s])
    /\ UNCHANGED <<i_doc, i_pc, i_mapping, i_dir, imageFrame>>

NextImages ==
    \/ \E s \in ImageSessions : store_pdf_images(s)
    \/ \E s \in ImageSessions : store_markdown_images(s)
    \/ \E s \in ImageSessions : create_card_images(s)
    \/ \E s \in ImageSessions : create_markdown_card_images(s)

SpecImages == InitImages /\ [][NextImages]_vars

\* ========================================================= prompt versions
\* backend/services/prompt_service.py, prompt_evolution_service.py behind
\* backend/api/v1/prompts.py; a row's id is its position in the table

PromptTypes == {"generation", "validation"}

\* the PromptVersion row seed_initial_prompts adds for a type
SeedPrompt(prompt_type) ==
    [prompt_type |-> prompt_type, version |-> 1, is_active |-> TRUE, parent |-> 0]

\* ids of the rows get_active_prompt's query matches (it returns the first)
ActivePrompts(versions, prompt_type) ==
    {k \in DOMAIN versions :
        versions[k].prompt_type = prompt_type /\ versions[k].is_active}

NewVersion_Ascending(versions, prompt_type) ==
    LET of_type == {versions[k].version :
                       k \in {j \in DOMAIN versions : versions[j].prompt_type = prompt_type}}
    IN  IF of_type = {} THEN 1
        ELSE (CHOOSE v \in of_type : \A w \in of_type : v <= w) + 1

\* version of the row "order_by(version.desc()).first()" finds, plus one
NewVersion(versions, prompt_type) ==
    LET of_type == {versions[k].version :
                       k \in {j \in DOMAIN versions : versions[j].prompt_type = prompt_type}}
    IN  IF of_type = {} THEN 1
        ELSE (CHOOSE v \in of_type : \A w \in of_type : w <= v) + 1

Deactivate_OnlyParent(versions, prompt_type, parent) ==
    [versions EXCEPT ![parent].is_active = FALSE]

\* query(PromptVersion).filter(prompt_type == type).update({"is_active": False})
Deactivate(versions, prompt_type, parent) ==
    [k \in DOMAIN versions |->
        IF versions[k].prompt_type = prompt_type
        THEN [versions[k] EXCEPT !.is_active = FALSE] ELSE versions[k]]

InitPrompts ==
    /\ InitSessions
    /\ NoBatchCall
    /\ NoRecoverRun
    /\ NoReview
    /\ NoPrompts
    /\ NoModuleCall

promptFrame == <<sessVars, batchVars, recoverVars, reviewVars, moduleVars, metricVars>>

\* lifespan(): seed_initial_prompts() of one more process start
seed_initial_prompts ==
    /\ p_boots < MaxStarts
    /\ p_boots' = p_boots + 1
    /\ p_versions' = IF p_versions # <<>> THEN p_versions
                     ELSE <<SeedPrompt("generation"), SeedPrompt("validation")>>
    /\ UNCHANGED <<p_suggestions, p_calls, p_last, promptFrame>>

CardStatuses == {"pending", "approved", "rejected", "edited"}

\* what llm.generate_structured_output does for _generate_prompt_improvement:
\* a dict with the three keys, an empty dict, a dict without one of the keys,
\* or an exception
AnalysisOutcomes == {"ok", "empty", "missing_key", "raise"}

NothingToLearn_Unchecked(statuses) == statuses = {}

\* "if not cards" and "if not rejected_cards and not edited_cards"
NothingToLearn(statuses) ==
    "rejected" \notin statuses /\ "edited" \notin statuses

\* analyze_session_and_generate_suggestion, the background task of a
\* finalization: returns None before the model call when the session row is
\* missing, has nothing to learn from or no generation prompt is active; a
\* failed call, a falsy answer or an answer without one of the keys returns
\* None as well; otherwise one pending suggestion for the active prompt
analyze_session_and_generate_suggestion ==
    /\ p_boots >= 1
    /\ p_last.n < MaxAnalyses
    /\ Len(p_suggestions) < MaxSuggestions
    /\ \E found \in BOOLEAN, statuses \in SUBSET CardStatuses,
          outcome \in AnalysisOutcomes :
       LET active == ActivePrompts(p_versions, "generation")
           called == found /\ ~NothingToLearn(statuses) /\ active # {}
           made == called /\ outcome = "ok"
       IN  /\ (~found) => statuses = {}
           /\ (~called) => outcome = "ok"
           /\ p_calls' = IF called THEN p_calls + 1 ELSE p_calls
           /\ IF made
              THEN \E gen_prompt \in active :
                      p_suggestions' =
                          Append(p_suggestions,
                                 [prompt_version_id |-> gen_prompt, status |-> "pending"])
              ELSE p_suggestions' = p_suggestions
           /\ p_last' = [n |-> p_last.n + 1, found |-> found, statuses |-> statuses,
                         outcome |-> IF called THEN outcome ELSE "none",
                         returned |-> IF made THEN Len(p_suggestions) + 1 ELSE 0]
    /\ UNCHANGED <<p_versions, p_boots, promptFrame>>

\* POST /suggestions/{suggestion_id}/approve with approve_suggestion; an id
\* without a row gets 404 and nothing changes
approve_suggestion ==
    /\ p_boots >= 1
    /\ Len(p_versions) < MaxPromptRows
    /\ \E suggestion_id \in 1..(MaxSuggestions + 1) :
       IF suggestion_id \notin DOMAIN p_suggestions
       THEN UNCHANGED <<p_versions, p_suggestions>>
       ELSE LET current == p_suggestions[suggestion_id].prompt_version_id
                prompt_type == p_versions[current].prompt_type
                new_prompt == [prompt_type |-> prompt_type,
                               version |-> NewVersion(p_versions, prompt_type),
                               is_active |-> TRUE, parent |-> current]
            IN  /\ p_versions' = Append(Deactivate(p_versions, prompt_type, current),
                                        new_prompt)
                /\ p_suggestions' = [p_suggestions EXCEPT
                                        ![suggestion_id].status = "approved"]
    /\ UNCHANGED <<p_boots, p_calls, p_last, promptFrame>>

\* POST /suggestions/{suggestion_id}/reject with reject_suggestion
reject_suggestion ==
    /\ p_boots >= 1
    /\ \E suggestion_id \in 1..(MaxSuggestions + 1) :
       IF suggestion_id \notin DOMAIN p_suggestions
       THEN UNCHANGED p_suggestions
       ELSE p_suggestions' = [p_suggestions EXCEPT ![suggestion_id].status = "rejected"]
    /\ UNCHANGED <<p_versions, p_boots, p_calls, p_last, promptFrame>>

NextPrompts ==
    \/ seed_initial_prompts
    \/ analyze_session_and_generate_suggestion
    \/ approve_suggestion
    \/ reject_suggestion

SpecPrompts == InitPrompts /\ [][NextPrompts]_vars

\* ================================================================= claims
\* the step in which an initial generation task (PDF or Markdown) of session s
\* leaves its batch loop and commits the final status
InitialRunEnds(s) ==
    /\ task[s].pc \in {"native", "text", "md"}
    /\ task'[s].pc = "done"

\* cards of session s that the task counted by runs[s] has committed
CardsOfRun(all, run) == {k \in DOMAIN all : all[k].run = run}

\* C1: once the background task of an accepted start-generation or
\* continue-generation request has returned, the session is no longer
\* PROCESSING (the task always terminates, so this is what "eventually leaves
\* PROCESSING without a restart" comes to)
C1_NotProcessingAfterTask ==
    \A s \in Sessions : task[s].pc \in {"idle", "done"} => status[s] # "processing"

\* C2: a session that is FINALIZED is FINALIZED in the next state, whatever
\* step is taken
C2_FinalizedIsTerminal ==
    [][\A s \in Sessions : status[s] = "finalized" => status'[s] = "finalized"]_vars

\* C3: when an initial run ends in which some batch succeeded with at least one
\* card, the status it commits is READY and all cards of its successful batches
\* are among the session's committed cards, however many other batches raised
C3_PartialSuccessIsReady ==
    [][\A s \in Sessions :
          (InitialRunEnds(s) /\ task[s].ok_cards >= 1)
          => /\ status'[s] = "ready"
             /\ Cardinality(CardsOfRun(cards'[s], runs[s])) >= task[s].ok_cards]_vars

C3_Witness ==
    \E s \in Sessions :
        /\ task[s].pc = "done"
        /\ task[s].kind \in {"pdf", "markdown"}
        /\ task[s].ok_cards >= 1
        /\ task[s].errors # <<>>
        /\ status[s] = "ready"
        /\ cards[s] # <<>>

C5_FailedHasError ==
    \A s \in Sessions : status[s] = "failed" => error[s] # NoError

\* C6: a run of the start-up recovery turns every PROCESSING row into FAILED,
\* leaves every other row as it is, leaves no row PROCESSING, and a second run
\* changes nothing
C6_RecoveryOnlyTouchesProcessing ==
    [][r_runs' # r_runs
       => /\ \A k \in DOMAIN r_status :
                /\ r_status[k] = "processing" => r_status'[k] = "failed"
                /\ r_status[k] # "processing" => r_status'[k] = r_status[k]
                /\ r_status'[k] # "processing"
          /\ r_runs >= 1 => r_status' = r_status]_vars

C6_Witness ==
    /\ r_runs = 2
    /\ \E k, j \in DOMAIN r_status :
          r_status[k] = "failed" /\ r_status[j] \in {"pending", "ready", "finalized"}

\* the edges of the specified state machine ("none": the row does not exist; a
\* row created by the legacy upload starts generation at once and is created
\* PROCESSING, which is counted as specified)
SpecifiedEdges ==
    {<<"none", "pending">>, <<"none", "processing">>,
     <<"pending", "processing">>, <<"ready", "processing">>,
     <<"processing", "ready">>, <<"processing", "failed">>, <<"ready", "finalized">>}

\* C7: every change of a session's status follows a specified edge
C7_OnlySpecifiedEdges ==
    [][\A s \in Sessions :
          status'[s] # status[s] => <<status[s], status'[s]>> \in SpecifiedEdges]_vars

\* C8: processed_chunks never exceeds total_chunks
C8_ProcessedWithinTotal ==
    \A s \in Sessions : processed_chunks[s] <= total_chunks[s]

\* C9: the batches returned for a list of distinct indices cover exactly the
\* input, each is a contiguous in-order slice of the input of at most
\* batch_size elements, and an input of 1..batch_size elements gives the one
\* batch equal to the input
C9_BatchesCoverInput ==
    b_pc = "returned"
    => /\ UNION {Range(b_result[k]) : k \in DOMAIN b_result} = Range(b_pages)
       /\ \A k \in DOMAIN b_result :
             /\ Len(b_result[k]) <= b_size
             /\ \E i \in 0..Len(b_pages) :
                   b_result[k] = SubSeq(b_pages, i + 1, i + Len(b_result[k]))
       /\ (1 <= Len(b_pages) /\ Len(b_pages) <= b_size) => b_result = <<b_pages>>

C9_Witness ==
    /\ b_pc = "returned"
    /\ Len(b_pages) > b_size
    /\ Len(b_result) >= 2
    /\ b_overlap >= 1

\* C10: two consecutive batches share exactly `overlap` indices, the last ones
\* of the earlier batch and the first ones of the later batch; the example of
\* the specification (24 pages, size 10, overlap 1) gives 0-9, 9-18, 18-23
C10_ConsecutiveShareOverlap ==
    /\ b_pc = "returned"
       => \A k \in 1..(Len(b_result) - 1) :
             LET a == b_result[k]
                 b == b_result[k + 1]
             IN  /\ Cardinality(Range(a) \cap Range(b)) = b_overlap
                 /\ Len(a) >= b_overlap
                 /\ Len(b) >= b_overlap
                 /\ SubSeq(a, Len(a) - b_overlap + 1, Len(a)) = SubSeq(b, 1, b_overlap)
    /\ create_page_batches(PageRange(24), BATCH_SIZE, BATCH_OVERLAP)
         = <<[k \in 1..10 |-> k - 1], [k \in 1..10 |-> k + 8], [k \in 1..6 |-> k + 17]>>

C10_Witness ==
    /\ b_pc = "returned"
    /\ Len(b_result) >= 3
    /\ b_overlap >= 1
    /\ Len(b_result[Len(b_result)]) < b_size

\* q is p followed by zero or more further elements
IsPrefix(p, q) == Len(p) <= Len(q) /\ SubSeq(q, 1, Len(p)) = p

\* a step of the background task of session s (not its death in a restart)
TaskStep(s) == task'[s] # task[s] /\ task[s].pc \notin {"idle", "done"} /\ task'[s].pc # "idle"

\* C11: a native run over an empty page selection has no batches and
\* total_chunks = 0
C11_EmptySelectionNoBatches ==
    \A s \in Sessions :
        (task[s].pc = "native" /\ selected_pages[s] = <<>>)
        => (total_chunks[s] = 0 /\ task[s].batches = <<>>)

\* C12: a run attempts its batches one after the other whatever the earlier
\* ones did (each step inside the loop moves to the next batch, the run ends
\* only past the last batch), errors are only added to the record, and no step
\* of a run removes or changes a card that was committed before it
C12_BatchErrorsDoNotStopOrUndo ==
    [][\A s \in Sessions :
          (TaskStep(s) /\ task[s].pc # "queued")
          => /\ IsPrefix(cards[s], cards'[s])
             /\ task[s].idx < Len(task[s].batches)
                => /\ task'[s].pc = task[s].pc
                   /\ task'[s].idx = task[s].idx + 1
                   /\ IsPrefix(task[s].errors, task'[s].errors)
             /\ task'[s].pc = "done" => task[s].idx = Len(task[s].batches)]_vars

C12_Witness ==
    \E s \in Sessions :
        /\ task[s].pc \in {"native", "text", "md"}
        /\ task[s].idx = 2
        /\ task[s].ok_cards >= 1
        /\ Len(task[s].errors) = 1
        /\ processed_chunks[s] = 1
        /\ Len(cards[s]) >= 1

\* C13: no step of a continuation run sets FAILED or touches a card committed
\* before it; the run ends READY when its loop ends (whatever its batches did)
\* and when an exception escapes before the loop (for a provider without
\* native PDF support the task can also return before the loop; that exit is
\* not one of the two cases)
C13_ContinuationEndsReady ==
    [][\A s \in Sessions :
          (TaskStep(s) /\ task[s].kind = "continue")
          => /\ status'[s] # "failed"
             /\ IsPrefix(cards[s], cards'[s])
             /\ (task[s].pc = "cont" /\ task'[s].pc = "done") => status'[s] = "ready"
             /\ (/\ task[s].pc = "queued"
                 /\ task'[s].pc = "done"
                 /\ SupportsNativePdf(llm_provider[s])) => status'[s] = "ready"]_vars

C13_Witness ==
    \E s \in Sessions :
        /\ task[s].kind = "continue"
        /\ task[s].pc = "done"
        /\ task[s].errors # <<>>
        /\ Range(task[s].errors) \subseteq ModelErrors
        /\ task[s].ok_cards = 0
        /\ status[s] = "ready"
        /\ cards[s] # <<>>

\* C14: every card a continuation run has committed has a chunk_index above
\* the chunk_index of every card the session had before that run
C14_ContinuationIndexAboveMax ==
    \A s \in Sessions :
        task[s].kind = "continue"
        => \A i, j \in DOMAIN cards[s] :
              (cards[s][i].run < runs[s] /\ cards[s][j].run = runs[s])
              => cards[s][j].chunk_index > cards[s][i].chunk_index

\* the step is the card request `op` on the one card card_id
CardRequest(op, card_id) ==
    /\ c_result'.n = c_result.n + 1
    /\ c_result'.op = op
    /\ c_result'.ids = <<card_id>>

\* C15: once a card has a snapshot, no request changes original_front or
\* original_back; the edit or auto-correct that finds no snapshot stores the
\* front/back the card had before it
C15_SnapshotWriteOnce ==
    [][\A id \in DOMAIN c_cards :
          LET c == c_cards[id]
              d == c_cards'[id]
          IN  /\ c.original_front # NoneText
                 => (d.original_front = c.original_front /\ d.original_back = c.original_back)
              /\ (/\ c.original_front = NoneText
                  /\ c_result'.error = NoError
                  /\ CardRequest("edit", id) \/ CardRequest("auto_correct", id))
                 => (d.original_front = c.front /\ d.original_back = c.back)]_vars

\* C16: auto-correct of an existing card without any CardRejection row answers
\* "Card <id> has no rejection history", calls no model and changes neither
\* the card (front, back, status, snapshot, reviewed_at) nor any other row
C16_NoHistoryNoMutation ==
    [][\A id \in DOMAIN c_cards :
          (/\ CardRequest("auto_correct", id)
           /\ \A k \in DOMAIN c_rejections : c_rejections[k].card_id # id)
          => /\ c_result'.error = NoHistoryError(id)
             /\ c_calls' = c_calls
             /\ c_cards' = c_cards
             /\ c_rejections' = c_rejections]_vars

C16_Witness ==
    \E id \in DOMAIN c_cards :
        /\ c_result.op = "auto_correct"
        /\ c_result.ids = <<id>>
        /\ c_result.error = NoHistoryError(id)
        /\ c_rejections # <<>>
        /\ c_cards[id].status = "edited"

\* C17: an auto-correct that succeeds leaves the card pending with the
\* model's front/back (the old value for a key the answer lacks), sets
\* auto_corrected on exactly one rejection, one of the card's with the newest
\* created_at, and changes no other row; an auto-correct that fails changes
\* no card and no rejection
C17_AutoCorrectMarksLatest ==
    [][\A id \in DOMAIN c_cards :
          CardRequest("auto_correct", id)
          => IF c_result'.error = NoError
             THEN LET c == c_cards[id]
                      d == c_cards'[id]
                      r == c_result'.arg
                  IN  /\ d.status = "pending"
                      /\ d.front = (IF r.front = Missing THEN c.front ELSE r.front)
                      /\ d.back = (IF r.back = Missing THEN c.back ELSE r.back)
                      /\ \A other \in DOMAIN c_cards \ {id} : c_cards'[other] = c_cards[other]
                      /\ \E k \in DOMAIN c_rejections :
                            /\ c_rejections[k].card_id = id
                            /\ \A j \in DOMAIN c_rejections :
                                  c_rejections[j].card_id = id
                                  => c_rejections[j].created_at <= c_rejections[k].created_at
                            /\ c_rejections' = [c_rejections EXCEPT ![k].auto_corrected = TRUE]
             ELSE c_cards' = c_cards /\ c_rejections' = c_rejections]_vars

C17_Witness ==
    \E id \in DOMAIN c_cards :
        /\ c_result.op = "auto_correct"
        /\ c_result.ids = <<id>>
        /\ c_result.error = NoError
        /\ c_cards[id].status = "pending"
        /\ c_cards[id].front = "f3"
        /\ \E j, k \in DOMAIN c_rejections :
              /\ c_rejections[j].card_id = id
              /\ c_rejections[k].card_id = id
              /\ c_rejections[j].created_at < c_rejections[k].created_at
              /\ ~c_rejections[j].auto_corrected
              /\ c_rejections[k].auto_corrected

\* the edges of the specified card state machine
CardEdges ==
    {<<"pending", "approved">>, <<"pending", "rejected">>, <<"approved", "rejected">>,
     <<"rejected", "pending">>}
    \cup {<<st, "edited">> : st \in {"pending", "approved", "rejected"}}

\* C18: every change of a card's status follows a specified edge
C18_OnlySpecifiedCardEdges ==
    [][\A id \in DOMAIN c_cards :
          c_cards'[id].status # c_cards[id].status
          => <<c_cards[id].status, c_cards'[id].status>> \in CardEdges]_vars

\* C19: a batch request counts every id without a row as failed and every
\* other id as processed (so processed + failed = number of ids), leaves every
\* card it names approved (rejected, with one new rejection per time it is
\* named) and every card it does not name as it was
C19_BatchCountsAndMutates ==
    [][(c_result'.n = c_result.n + 1 /\ c_result'.op \in {"batch_approve", "batch_reject"})
       => LET ids == c_result'.ids
              missing == {k \in DOMAIN ids : ids[k] \notin DOMAIN c_cards}
              approve == c_result'.op = "batch_approve"
          IN  /\ c_result'.failed = Cardinality(missing)
              /\ c_result'.processed = Len(ids) - Cardinality(missing)
              /\ c_result'.processed + c_result'.failed = Len(ids)
              /\ \A id \in DOMAIN c_cards :
                    IF id \in Range(ids)
                    THEN c_cards'[id].status = (IF approve THEN "approved" ELSE "rejected")
                    ELSE c_cards'[id] = c_cards[id]
              /\ IsPrefix(c_rejections, c_rejections')
              /\ Len(c_rejections') = Len(c_rejections)
                                      + (IF approve THEN 0 ELSE c_result'.processed)
              /\ \A id \in DOMAIN c_cards :
                    approve \/ Cardinality({k \in DOMAIN c_rejections' :
                                              /\ k > Len(c_rejections)
                                              /\ c_rejections'[k].card_id = id})
                               = Cardinality({k \in DOMAIN ids : ids[k] = id})]_vars

C19_Witness ==
    /\ c_result.op = "batch_reject"
    /\ Len(c_result.ids) = 2
    /\ c_result.ids[1] \notin DOMAIN c_cards
    /\ c_result.ids[2] \in DOMAIN c_cards
    /\ c_result.processed = 1
    /\ c_result.failed = 1
    /\ c_cards[c_result.ids[2]].status = "rejected"

\* rows of the type that are active
ActiveOfType(versions, prompt_type) ==
    {k \in DOMAIN versions :
        versions[k].prompt_type = prompt_type /\ versions[k].is_active}

\* C20: in every state a step leads to after the seeding, each prompt type has
\* exactly one active version; a step that adds a version (an approval) leaves
\* the added row as the only active one of its type, numbered one above the
\* highest version the type had
C20_OneActivePerType ==
    [][/\ p_boots' >= 1
          => \A ty \in PromptTypes : Cardinality(ActiveOfType(p_versions', ty)) = 1
       /\ (p_boots >= 1 /\ Len(p_versions') = Len(p_versions) + 1)
          => LET new == Len(p_versions')
                 ty == p_versions'[new].prompt_type
             IN  /\ ActiveOfType(p_versions', ty) = {new}
                 /\ \A k \in DOMAIN p_versions :
                       p_versions[k].prompt_type = ty
                       => p_versions[k].version < p_versions'[new].version
                 /\ \E k \in DOMAIN p_versions :
                       /\ p_versions[k].prompt_type = ty
                       /\ p_versions[k].version + 1 = p_versions'[new].version]_vars

C20_Witness ==
    \E k \in DOMAIN p_versions :
        /\ p_versions[k].is_active
        /\ p_versions[k].version = 3
        /\ p_versions[k].parent = 1
        /\ \E s \in DOMAIN p_suggestions : p_suggestions[s].status = "rejected"

\* versions the rows of a type carry
VersionsOfType(versions, prompt_type) ==
    {versions[k].version :
        k \in {j \in DOMAIN versions : versions[j].prompt_type = prompt_type}}

\* C21: a step that adds a PromptVersion row (an approval) numbers it one above
\* the maximum version the type had, so that the versions of a type strictly
\* increase in creation order; the step adds or removes no suggestion row and
\* changes exactly one of them, which keeps its prompt_version_id, is the new
\* row's parent link and now has status approved
C21_VersionIsMaxPlusOne ==
    [][(p_boots >= 1 /\ Len(p_versions') = Len(p_versions) + 1)
       => LET new == Len(p_versions')
              ty == p_versions'[new].prompt_type
              old == VersionsOfType(p_versions, ty)
          IN  /\ old # {}
              /\ \E m \in old :
                    /\ \A w \in old : w <= m
                    /\ p_versions'[new].version = m + 1
              /\ \A j, k \in DOMAIN p_versions' :
                    (j < k /\ p_versions'[j].prompt_type = p_versions'[k].prompt_type)
                    => p_versions'[j].version < p_versions'[k].version
              /\ DOMAIN p_suggestions' = DOMAIN p_suggestions
              /\ \E s \in DOMAIN p_suggestions :
                    /\ p_suggestions'[s] =
                          [p_suggestions[s] EXCEPT !.status = "approved"]
                    /\ p_versions'[new].parent = p_suggestions[s].prompt_version_id
                    /\ \A o \in DOMAIN p_suggestions \ {s} :
                          p_suggestions'[o] = p_suggestions[o]]_vars

\* two suggestions made for version 1 were both approved: versions 1, 2, 3
C21_Witness ==
    /\ Len(p_suggestions) = 2
    /\ \A s \in DOMAIN p_suggestions :
          p_suggestions[s].status = "approved" /\ p_suggestions[s].prompt_version_id = 1
    /\ VersionsOfType(p_versions, "generation") = {1, 2, 3}

\* C22: an analysis of a session without a rejected and without an edited card
\* adds no suggestion and makes no model call; a suggestion an analysis adds
\* has status pending; no analysis changes a PromptVersion row
C22_AnalysisNoOpAndPending ==
    [][(p_last'.n = p_last.n + 1)
       => /\ ("rejected" \notin p_last'.statuses /\ "edited" \notin p_last'.statuses)
             => /\ p_suggestions' = p_suggestions
                /\ p_calls' = p_calls
                /\ p_last'.returned = 0
          /\ \/ p_suggestions' = p_suggestions
             \/ /\ Len(p_suggestions') = Len(p_suggestions) + 1
                /\ SubSeq(p_suggestions', 1, Len(p_suggestions)) = p_suggestions
                /\ p_suggestions'[Len(p_suggestions')].status = "pending"
                /\ p_last'.returned = Len(p_suggestions')
          /\ p_versions' = p_versions]_vars

\* a session with approved cards only was analysed after an analysis of a
\* session with an edited card had produced a suggestion
C22_Witness ==
    /\ p_last.n = 2
    /\ p_last.found
    /\ p_last.statuses = {"approved", "pending"}
    /\ p_last.returned = 0
    /\ p_calls = 1
    /\ Len(p_suggestions) = 1
    /\ p_suggestions[1].status = "pending"

\* C30: when batch k of a native run is processed, the indices of the batch
\* classified as context are exactly those that occur in a batch j < k of the
\* run, and the others are the new ones
C30_ContextIffInEarlierBatch ==
    [][\A s \in Sessions :
          (task[s].pc = "native" /\ task'[s].idx = task[s].idx + 1)
          => LET k == task[s].idx + 1
                 page_batch == task[s].batches[k]
                 earlier == UNION {Range(task[s].batches[j]) : j \in 1..(k - 1)}
             IN  /\ Range(ContextPages(page_batch, task[s].processed_pages))
                       = Range(page_batch) \cap earlier
                 /\ Range(NewPages(page_batch, task[s].processed_pages))
                       = Range(page_batch) \ earlier]_vars

\* admonitions a system prompt carries
CountAdmonitions(system) == Cardinality({i \in DOMAIN system : system[i] = Admonition})

\* C25: a structured-output call makes at most 3 round trips; the system
\* prompt of the i-th carries i - 1 admonitions; a response that parses (as it
\* is, or once its fences are stripped) is returned by the step that parses
\* it, with no further round trip; one that does not parse starts the next
\* round trip on the first and second attempt and raises JSONDecodeError on
\* the third
C25_AtMostThreeRoundTrips ==
    [][/\ Len(l_sent') <= 3
       /\ \A i \in DOMAIN l_sent' : CountAdmonitions(l_sent'[i]) = i - 1
       /\ l_pc = "parsing"
          => LET direct == json_loads(l_response.body)
                 parsed == json_loads(StripFences(l_response.body))
             IN  /\ direct.ok => parsed.ok /\ parsed.value = direct.value
                 /\ parsed.ok
                    => /\ l_pc' = "returned"
                       /\ l_result' = [kind |-> "value", value |-> parsed.value,
                                       error |-> <<>>]
                       /\ l_sent' = l_sent
                 /\ (~parsed.ok /\ Len(l_sent) < 3)
                    => /\ l_pc' = "calling"
                       /\ Len(l_sent') = Len(l_sent) + 1
                       /\ l_result' = l_result
                 /\ (~parsed.ok /\ Len(l_sent) = 3)
                    => /\ l_pc' = "raised"
                       /\ l_result'.kind = "error"
                       /\ l_result'.error = JSONDecodeError
                       /\ l_sent' = l_sent]_vars

\* the third response did not parse either: the call raised after round trips
\* with 0, 1 and 2 admonitions
C25_Witness ==
    /\ l_pc = "raised"
    /\ l_result.error = JSONDecodeError
    /\ Len(l_sent) = 3
    /\ CountAdmonitions(l_sent[3]) = 2
    /\ l_response.kind = "text"
    /\ l_response.body = <<Fence, CardsObject, Fence>>

\* C26: _retry_on_rate_limit makes a provider call only when fewer than 5
\* were made, having slept 10, 20, 40, 60 after the errors so far; when the
\* call is the k-th to raise a rate-limit error it sleeps the k-th of these
\* delays and stays in the loop for k <= 4 and raises the error without a
\* sleep for k = 5; an error not recognized as a rate limit is raised at once
\* without a sleep
C26_RateLimitBackoff ==
    [][(l_pc = "calling" /\ l_calls' = l_calls + 1)
       => LET k == l_calls + 1
              e == l_response'.body
              delays == <<10, 20, 40, 60>>
          IN  /\ k <= 5
              /\ l_waits = SubSeq(delays, 1, k - 1)
              /\ l_response'.kind = "error"
                 => /\ (IsRateLimit(e) /\ k <= 4)
                       => /\ l_pc' = "calling"
                          /\ l_waits' = Append(l_waits, delays[k])
                    /\ (IsRateLimit(e) /\ k = 5)
                       => /\ l_pc' = "raised"
                          /\ l_result'.error = e
                          /\ l_waits' = l_waits
                    /\ ~IsRateLimit(e)
                       => /\ l_pc' = "raised"
                          /\ l_result'.error = e
                          /\ l_waits' = l_waits]_vars

\* five rate-limit errors in a row in the second round trip
C26_Witness ==
    /\ l_pc = "raised"
    /\ l_attempt = 1
    /\ l_calls = 5
    /\ l_waits = <<10, 20, 40, 60>>
    /\ l_result.kind = "error"
    /\ IsRateLimit(l_result.error)

\* C27: a response that parses as JSON but is not an object with a "cards"
\* array is not returned: the step that parses it starts another round trip or
\* raises; and the caller's card loop never ends well on a value without
\* "cards"
C27_SchemaMismatchRetried ==
    [][/\ l_pc = "parsing"
          => LET parsed == json_loads(StripFences(l_response.body))
             IN  (parsed.ok /\ (parsed.value.type # "dict"
                                \/ "cards" \notin parsed.value.keys))
                 => \/ l_pc' = "raised"
                    \/ l_pc' = "calling" /\ Len(l_sent') = Len(l_sent) + 1
       /\ l_batch'.kind = "ok" => "cards" \in l_result'.value.keys]_vars

\* the paragraphs of a list of chunks, in order
RECURSIVE ParagraphsOf(_)
ParagraphsOf(chunks) ==
    IF chunks = <<>> THEN <<>>
    ELSE SplitText(Head(chunks), <<Blank, Blank>>, <<>>) \o ParagraphsOf(Tail(chunks))

\* C28: every chunk segment_content returns, called directly or by
\* process_pdf on the cleaned text, is at most chunk_size long, and the chunks
\* of a direct call on a text that neither starts nor ends with whitespace
\* hold the paragraphs of the text, each once and in order
C28_ChunkCeiling ==
    /\ g_pc \in {"segment_content", "process_pdf"}
       => \A i \in DOMAIN g_chunks : TextLen(g_chunks[i]) <= g_chunk_size
    /\ (g_pc = "segment_content" /\ g_text # <<>> /\ Strip(g_text) = g_text)
       => ParagraphsOf(g_chunks) = SplitText(g_text, <<Blank, Blank>>, <<>>)

\* the dict has the three keys
HasAllKeys(data) ==
    data.front.type # Missing /\ data.back.type # Missing /\ data.tags.type # Missing

\* C29 as stated: from_dict(to_dict(c)) has the front, back and tags of c, and
\* to_dict(from_dict(d)) equals d for every dict d with the three keys
C29_RoundTripEveryDict ==
    /\ f_pc = "card" => f_out = f_card
    /\ (f_pc = "dict" /\ HasAllKeys(f_dict)) => f_out = f_dict

\* C29 amended: from_dict(to_dict(c)) has the front, back and tags of c, and
\* to_dict(from_dict(d)) equals d for every dict d with the three keys whose
\* tags value is a list; for a tags value of None the result has tags []
C29_RoundTripListTags ==
    /\ f_pc = "card" => f_out = f_card
    /\ (f_pc = "dict" /\ HasAllKeys(f_dict) /\ f_dict.tags.type = "list")
       => f_out = f_dict
    /\ (f_pc = "dict" /\ HasAllKeys(f_dict) /\ f_dict.tags.type = "NoneType")
       => f_out = [f_dict EXCEPT !.tags = List(<<>>)]

\* a dict with two tags and a front of None came back unchanged
C29_Witness ==
    /\ f_pc = "dict"
    /\ f_dict = [front |-> NoneStr, back |-> Str("A"),
                 tags |-> List(<<"python", "tdd">>)]
    /\ f_out = f_dict

\* C23: for the card handled last in a native-PDF batch, a file named by the
\* card that is in the batch's image manifest has exactly one CardImage row,
\* whose stored_filename is the name the file was stored under, and a file
\* that is not in the manifest has none
C23_ImageReferenceRoundTrip ==
    (i_card.session # 0 /\ i_doc[i_card.session].kind = "pdf")
    => LET s == i_card.session
           manifest == BatchManifest(i_doc[s], i_card.page_batch)
           rows(f) == {k \in DOMAIN i_rows : i_rows[k].original_filename = f}
       IN  \A f \in Range(i_card.images) :
             IF f \in manifest
             THEN /\ Cardinality(rows(f)) = 1
                  /\ \A k \in rows(f) :
                        [original |-> f, stored |-> i_rows[k].stored_filename]
                            \in i_mapping[s]
             ELSE rows(f) = {}

\* C24: no two distinct source images, of one session or of two, have the
\* same stored name, and every file a session stored is still its own
C24_StoredNamesCollisionFree ==
    /\ \A s1, s2 \in DOMAIN i_mapping :
          \A m1 \in i_mapping[s1], m2 \in i_mapping[s2] :
             m1.stored = m2.stored => (s1 = s2 /\ m1.original = m2.original)
    /\ \A s \in DOMAIN i_mapping :
          \A m \in i_mapping[s] :
             [stored |-> m.stored, session |-> s, original |-> m.original] \in i_dir

\* C31: every batch of a native-document run reaches its structured model
\* call: assembling the prompt never fails a batch, so no error recorded by a
\* native run is the KeyError of a template field, and a finished native run
\* none of whose model calls failed has processed_chunks = total_chunks
TemplateErrors == {KeyErrorText(TemplateFields[i]) : i \in DOMAIN TemplateFields}

C31_PromptAssemblyNeverFails ==
    \A s \in Sessions :
       task[s].kind = "pdf" =>
          /\ \A i \in DOMAIN task[s].errors : task[s].errors[i] \notin TemplateErrors
          /\ (task[s].pc = "done" /\ task[s].errors = <<>> /\ status[s] = "ready"
                 /\ use_native_pdf[s] /\ SupportsNativePdf(llm_provider[s]))
             => processed_chunks[s] = total_chunks[s]

\* ==================================================== continuation prompt
\* continue_generation, from the query of the existing cards to
\* existing_cards_context

\* "for card in existing_cards[:100]"
ExclusionLimit == 100

\* Card.status.in_([APPROVED, PENDING, EDITED])
ExcludedStatuses == {"approved", "pending", "edited"}

\* the cards table of a session in creation order (id = position): the cards
\* named in rejected are rejected, the others pending or of the three other
\* statuses in turn
StatusCycle == <<"approved", "pending", "edited">>
CardTable(n, rejected, mixed) ==
    [id \in 1..n |->
        [id |-> id,
         status |-> IF id \in rejected THEN "rejected"
                    ELSE IF mixed THEN StatusCycle[(id % 3) + 1] ELSE "pending"]]

TableSizes == {0, 1, 2, ExclusionLimit - 1, ExclusionLimit, ExclusionLimit + 1,
               ExclusionLimit + MaxExtra}
CardTables ==
    {CardTable(n, rejected, mixed) :
        n \in TableSizes, rejected \in SUBSET {1, 2, ExclusionLimit + 1},
        mixed \in BOOLEAN}

\* the query has no ORDER BY: the rows come in the order the database
\* chooses, SQLite's rowid order or another one
RowOrders == {"rowid", "reverse"}
ReverseRows(rows) == [k \in 1..Len(rows) |-> rows[Len(rows) + 1 - k]]

\* db.query(Card).filter(Card.session_id == ..., Card.status.in_(...)).all()
existing_cards(table, order) ==
    LET hits == SelectSeq(table, LAMBDA c : c.status \in ExcludedStatuses)
    IN  IF order = "rowid" THEN hits ELSE ReverseRows(hits)

\* the cards whose "- Q: ... A: ..." lines are joined, by id
existing_cards_context(rows) ==
    [k \in 1..Min(Len(rows), ExclusionLimit) |-> rows[k].id]

InitContinue ==
    /\ InitSessions
    /\ NoBatchCall
    /\ NoRecoverRun
    /\ NoReview
    /\ NoPrompts
    /\ NoLlmCall
    /\ NoSegmentCall
    /\ NoFlashCard
    /\ NoImages
    /\ NoUnitOfWork
    /\ x_cards \in CardTables
    /\ x_list = <<>>
    /\ x_pc = "call"

serviceFrame == <<sessVars, batchVars, recoverVars, reviewVars, promptVars, llmVars,
                  segmentVars, flashVars, imageVars, metricVars>>
exclusionFrame == <<serviceFrame, unitVars>>

\* continue_generation, lines 500-514
build_exclusion_list ==
    /\ x_pc = "call"
    /\ \E order \in RowOrders :
          x_list' = existing_cards_context(existing_cards(x_cards, order))
    /\ x_pc' = "built"
    /\ UNCHANGED <<x_cards, exclusionFrame>>

NextContinue == build_exclusion_list

SpecContinue == InitContinue /\ [][NextContinue]_vars

\* C32: the exclusion list of the continuation prompt holds only approved,
\* pending or edited cards of the session, at most 100 of them, and when more
\* than 100 cards qualify it holds the 100 created last
Qualifying == {id \in DOMAIN x_cards : x_cards[id].status \in ExcludedStatuses}

C32_HundredMostRecent ==
    x_pc = "built" =>
       /\ \A k \in DOMAIN x_list : x_list[k] \in Qualifying
       /\ Len(x_list) <= ExclusionLimit
       /\ Cardinality(Qualifying) > ExclusionLimit =>
             \A old \in Qualifying \ Range(x_list), new \in Range(x_list) : old < new

\* C33: in the Markdown path a file name of a card's "images" list is
\* resolved against the document's images by exact match of the relative
\* path first and by match of the basename second; the row created links the
\* stored name of an image selected by that rule, and a name matching no
\* image by either rule creates no row
ResolvedImages(img_filename, images) ==
    LET exact == {img \in images : img.original = img_filename}
        basename == {img \in images : img.name = img_filename}
    IN  IF exact # {} THEN exact ELSE basename

C33_ExactThenBasename ==
    (i_card.session # 0 /\ i_doc[i_card.session].kind = "markdown")
    => LET s == i_card.session
           resolved(f) == ResolvedImages(f, i_doc[s].images)
           expected == SelectSeq(i_card.images, LAMBDA f : resolved(f) # {})
       IN  /\ Len(i_rows) = Len(expected)
           /\ \A k \in DOMAIN i_rows :
                 /\ k \in DOMAIN expected
                 /\ i_rows[k].original_filename = expected[k]
                 /\ \E img \in resolved(expected[k]) :
                       [original |-> img.original, stored |-> i_rows[k].stored_filename]
                           \in i_mapping[s]

\* C34: the JSON retry loop and the rate-limit retry loop are nested: every
\* round trip of a structured call begins its own rate-limit loop of at most 5
\* provider requests, there are at most 3 round trips and so at most 15
\* requests; a rate-limit error raised by the 5th request of a round trip
\* leaves the structured call without a further round trip and the caller's
\* batch records an error; a call that was begun returns or raises
C34_NestedRetryLoops ==
    /\ [][/\ l_calls' <= max_attempts
          /\ Len(l_sent') <= max_retries
          /\ l_total' <= max_retries * max_attempts
          /\ (Len(l_sent') = Len(l_sent) + 1) => (l_calls' = 0 /\ l_waits' = <<>>)
          /\ (l_pc = "calling" /\ l_calls = max_attempts - 1 /\ l_total' = l_total + 1
                 /\ l_response'.kind = "error")
             => /\ l_pc' = "raised"
                /\ l_result' = [kind |-> "error", value |-> NoJson,
                                error |-> l_response'.body]
                /\ l_sent' = l_sent
          /\ (l_pc = "raised" /\ l_batch'.kind # "none") => l_batch'.kind = "error"]_vars
    /\ (l_pc \in {"calling", "parsing"}) ~> (l_pc \in {"returned", "raised"})

\* the third round trip of a call made its 5th request after four rate-limit
\* errors, as the two before it had: 15 requests
C34_Witness ==
    /\ l_total = max_retries * max_attempts
    /\ Len(l_sent) = max_retries
    /\ l_calls = max_attempts
    /\ Len(l_waits) = max_attempts - 1

\* a rate-limit error survived the 5 requests of the second round trip and is
\* the error of the batch
C34_WitnessSurfaces ==
    /\ l_pc = "raised"
    /\ Len(l_sent) = 2
    /\ l_calls = max_attempts
    /\ IsRateLimit(l_result.error)
    /\ l_batch.kind = "error"

\* C36: the cards that a batch added to the unit of work before it raised are
\* committed by no later step: not by the commit of a later batch and not by
\* the commit that ends the run
C36_FailedBatchNeverCommitted ==
    [][\A s \in Sessions :
          task[s].uow # <<>> => ~IsPrefix(cards[s] \o task[s].uow, cards'[s])]_vars

\* ============================================== cards and their image rows
\* the card loops of _process_with_native_pdf (has_images) and of
\* process_markdown_and_generate_cards, with the rows of the database session

\* an entry of a card_data's "images" list: a name that resolves to a stored
\* image, a name that does not, and a JSON value on which the lookup raises
\* TypeError (an array or object as a dict key, a non-string as the left
\* operand of "in" on a str)
ImageEntries == {"mapped", "unmapped", "unhashable"}
CardDatas == UNION {[1..n -> ImageEntries] : n \in 0..MaxRefs}
CardResponses == UNION {[1..n -> CardDatas] : n \in 0..MaxUnitCards}

\* the CardImage rows the loop over the list would add if nothing raised
Planned(images) == Cardinality({k \in DOMAIN images : images[k] = "mapped"})

\* "for img_filename in ...": rows are added up to the entry that raises
RECURSIVE AddCardImages(_, _)
AddCardImages(card_id, images) ==
    IF images = <<>> THEN [rows |-> <<>>, raised |-> FALSE]
    ELSE IF Head(images) = "unhashable" THEN [rows |-> <<>>, raised |-> TRUE]
    ELSE LET rest == AddCardImages(card_id, Tail(images))
             row == IF Head(images) = "mapped"
                    THEN <<[kind |-> "image", card_id |-> card_id, planned |-> 0]>>
                    ELSE <<>>
         IN  [rows |-> row \o rest.rows, raised |-> rest.raised]

\* "for card_data in response.get("cards", [])": db.add(db_card), db.flush()
\* for its id, then its images; an exception ends the loop
RECURSIVE SaveCards(_, _)
SaveCards(card_datas, next_id) ==
    IF card_datas = <<>> THEN [rows |-> <<>>, raised |-> FALSE]
    ELSE LET images == Head(card_datas)
             card == [kind |-> "card", card_id |-> next_id, planned |-> Planned(images)]
             added == AddCardImages(next_id, images)
         IN  IF added.raised
             THEN [rows |-> <<card>> \o added.rows, raised |-> TRUE]
             ELSE LET rest == SaveCards(Tail(card_datas), next_id + 1)
                  IN  [rows |-> <<card>> \o added.rows \o rest.rows,
                       raised |-> rest.raised]

\* ids the flushes have handed out
CardIds(rows) == {rows[k].card_id : k \in {j \in DOMAIN rows : rows[j].kind = "card"}}

InitUnitOfWork ==
    /\ InitSessions
    /\ NoBatchCall
    /\ NoRecoverRun
    /\ NoReview
    /\ NoPrompts
    /\ NoLlmCall
    /\ NoSegmentCall
    /\ NoFlashCard
    /\ NoImages
    /\ NoExclusionList
    /\ u_db = <<>>
    /\ u_uow = <<>>
    /\ u_idx = 0
    /\ u_errors = 0
    /\ u_pc = "loop"

unitFrame == <<serviceFrame, exclusionVars>>

\* one iteration of the batch loop after the model's response has come: the
\* card loop, then "processed_chunks = ...; db.commit()", or the except branch,
\* which records the error and leaves the database session as it is
save_batch ==
    /\ u_pc = "loop"
    /\ u_idx < MaxUnitBatches
    /\ \E response \in CardResponses :
          LET saved == SaveCards(response, Cardinality(CardIds(u_db \o u_uow)) + 1)
          IN  IF saved.raised
              THEN /\ u_uow' = u_uow \o saved.rows
                   /\ u_errors' = u_errors + 1
                   /\ UNCHANGED u_db
              ELSE /\ u_db' = u_db \o u_uow \o saved.rows
                   /\ u_uow' = <<>>
                   /\ UNCHANGED u_errors
    /\ u_idx' = u_idx + 1
    /\ UNCHANGED <<u_pc, unitFrame>>

\* after the loop: the status is set and "db.commit()" ends the run
finish_run ==
    /\ u_pc = "loop"
    /\ u_idx = MaxUnitBatches
    /\ u_db' = u_db \o u_uow
    /\ u_uow' = <<>>
    /\ u_pc' = "done"
    /\ UNCHANGED <<u_idx, u_errors, unitFrame>>

NextUnitOfWork ==
    \/ save_batch
    \/ finish_run

SpecUnitOfWork == InitUnitOfWork /\ [][NextUnitOfWork]_vars

\* C35: among the committed rows every card has all the CardImage rows its
\* batch created or was about to create for it
ImagesOf(rows, card_id) ==
    {k \in DOMAIN rows : rows[k].kind = "image" /\ rows[k].card_id = card_id}

C35_CardCommittedWithItsImages ==
    \A k \in DOMAIN u_db :
       u_db[k].kind = "card"
       => Cardinality(ImagesOf(u_db, u_db[k].card_id)) = u_db[k].planned

\* a background task of the session has been added and has not returned
Running(t) == t.pc \notin {"idle", "done"}

\* C37: no request adds a background task for a session while an earlier task
\* of that session has not returned
C37_OneTaskPerSession ==
    [][\A s \in Sessions :
          (runs'[s] = runs[s] + 1) => (~Running(task[s]) /\ task'[s].pc = "queued")]_vars

\* a continuation task was added after the first task had returned, and a
\* finalize request came while it was still queued
C37_Witness ==
    \E s \in Sessions :
        /\ runs[s] = 2
        /\ task[s].kind = "continue"
        /\ Running(task[s])
        /\ status[s] = "finalized"

\* C38: a step that adds a PromptVersion row or changes which rows are active
\* (an approval) is the approval of a suggestion whose status was pending
C38_OnlyPendingIsApproved ==
    [][(p_boots >= 1 /\ p_versions' # p_versions)
       => \E s \in DOMAIN p_suggestions :
             /\ p_suggestions[s].status = "pending"
             /\ p_suggestions'[s].status = "approved"]_vars

\* CardRejection rows of a card
RejectionsOf(rejections, card_id) ==
    {k \in DOMAIN rejections : rejections[k].card_id = card_id}

\* how often a request that has returned succeeded on a card: its ids that
\* name the card, unless the request ended in an error
Succeeded(result, card_id) ==
    IF result.error # NoError THEN 0
    ELSE Cardinality({k \in DOMAIN result.ids : result.ids[k] = card_id})

\* C39: every request leaves each card with one more CardRejection row for
\* each successful reject on it and with no other change of its rows, a
\* rejected card has at least one row, and reviewed_at is null after the
\* request exactly if it was null before and no operation of the request
\* succeeded on the card (cards start with no row and reviewed_at null)
C39_RejectionRowsAndReviewedAt ==
    [][c_result'.n = c_result.n + 1
       => \A card_id \in DOMAIN c_cards :
             LET ops == Succeeded(c_result', card_id)
                 rejects == IF c_result'.op \in {"reject", "batch_reject"} THEN ops ELSE 0
             IN  /\ Cardinality(RejectionsOf(c_rejections', card_id))
                       = Cardinality(RejectionsOf(c_rejections, card_id)) + rejects
                 /\ c_cards'[card_id].status = "rejected"
                       => RejectionsOf(c_rejections', card_id) # {}
                 /\ (c_cards'[card_id].reviewed_at = NoTime)
                       <=> (c_cards[card_id].reviewed_at = NoTime /\ ops = 0)]_vars

\* a card rejected twice and then auto-corrected is pending with two rows and
\* a review time, while another card has never been reviewed
C39_Witness ==
    \E a, b \in DOMAIN c_cards :
        /\ Cardinality(RejectionsOf(c_rejections, a)) = 2
        /\ c_cards[a].status = "pending"
        /\ c_cards[a].reviewed_at # NoTime
        /\ c_result.op = "auto_correct"
        /\ c_result.error = NoError
        /\ RejectionsOf(c_rejections, b) = {}
        /\ c_cards[b].reviewed_at = NoTime

\* C40: whenever no task of a session is running and the last one recorded no
\* error, the counter of the version equals the number of the cards the
\* generation runs (initial, restarted, continuation) have created
C40_EveryCardCountedOnce ==
    \A s \in Sessions :
       (task[s].pc = "done" /\ task[s].errors = <<>> /\ status[s] = "ready")
       => total_cards_generated = Len(cards[s])

====
